---- MODULE Spec2Model ----
(***************************************************************************)
(* Leave Management System: the workflow / leave / balance engines and the *)
(* Unit of Work that scopes them, over a shared relational database.       *)
(*                                                                         *)
(* Each request handler owns one UnitOfWork (one session, one              *)
(* transaction).  A handler is modelled statement by statement: a load     *)
(* (SELECT by primary key plus the precondition checks), the flushed       *)
(* UPDATE / INSERT statements, and finally the commit or rollback of       *)
(* UnitOfWork.__exit__.  The database is READ COMMITTED with row locks     *)
(* taken by UPDATE: a transaction reads the committed rows plus its own    *)
(* flushed writes, and an UPDATE of a row another open transaction has     *)
(* written waits until that transaction ends.  The code issues no          *)
(* SELECT ... FOR UPDATE, so loads never wait.                             *)
(***************************************************************************)
EXTENDS Integers, Sequences, FiniteSets, TLC

\* ---------------------------------------------------------------- bounds
MaxApprovers == 2
MaxStepRows == 2
MaxApprovals == 3

\* ------------------------------------------------------------- universes
Txns == {"t1", "t2"}
Reqs == {"r1"}
StepIds == 1..MaxStepRows
None == -1
Owner == 0
Users == 0..MaxApprovers
AuditEntities == {"LeaveRequest", "WorkflowStep", "LeaveBalance"}

\* total_days of each request (R2: total_days > 0)
TotalDays == [r \in Reqs |-> 1]

\* every request of the model belongs to the one employee
RequestOwner(r) == Owner

\* the approver list handed to instantiate_steps: A1 .. An
Chain(n) == [i \in 1..n |-> i]

NoStep == [req |-> "none", ord |-> 0, approver |-> 0, status |-> "ABSENT", owner |-> "none"]
NoWrite == "-"
ReqDefaults == [status |-> "DRAFT", decided_by |-> None, decided_at |-> FALSE,
                cancelled_at |-> FALSE, submitted_at |-> FALSE]
NoReqWrite == [set |-> {}, val |-> ReqDefaults]
NoLoc == [rq |-> "-", sel |-> {}, nxt |-> 0, nxtSt |-> "-"]
\* what a call returned: the engine's result (StepActivated, WorkflowCompleted)
\* with the is_final that LeaveEngine reports for it, or the exception raised
NoRes == [kind |-> "none", step |-> 0, final |-> "-", is_final |-> FALSE]
NoOp == [kind |-> "none", req |-> "r1", step |-> 0, actor |-> 0, n |-> 0]
ZeroAudit == [e \in AuditEntities |-> 0]

\* ------------------------------------------------ leave balance accounting
\* the opening balance of a leave_balances row ranges over 0..MaxOpening
MaxOpening == 2
\* BalanceEngine calls whose updates commit, per behaviour
MaxBalOps == 3
\* of which, when the calls run concurrently
MaxRacingOps == 2

\* leave requests handed to BalanceEngine, and the total_days of each: the
\* create schema takes any float, so a request may carry a negative number
BalReqs == {"q1", "q2", "q3"}
total_days == [q \in BalReqs |-> CASE q = "q1" -> 1 [] q = "q2" -> 2 [] OTHER -> 0 - 1]

\* no leave_balances column written by the transaction
NoBalWrite == [cols |-> {}, pending |-> 0, used |-> 0]
\* no BalanceEngine call in the transaction
NoCall == [kind |-> "none", q |-> "none", found |-> FALSE,
           row |-> [opening |-> 0, pending |-> 0, used |-> 0],
           available |-> 0, requested |-> 0]
\* the bookkeeping at the start of a behaviour whose balance row is b
NewLedger(b) == [pending |-> b.pending, used |-> b.used, pending0 |-> b.pending,
                 used0 |-> b.used, open |-> {}, n |-> 0, last |-> "none"]

\* ------------------------------------------------- the UnitOfWork object
\* explicit begin / commit / rollback calls made on one UnitOfWork
MaxCalls == 4
\* a UnitOfWork after __init__, on a fresh session: _transaction and
\* _completed, the session's begin() calls, the transaction's commit() and
\* rollback() calls and those that returned, session.close(), the position of
\* the caller (new, body, left), the explicit calls made so far, how the body
\* ended, how __exit__ ended and what it called, session.is_active at exit
NewUow == [transaction |-> FALSE, completed |-> FALSE, begin_calls |-> 0,
           commit_calls |-> 0, rollback_calls |-> 0, committed |-> 0, rolled_back |-> 0,
           closed |-> FALSE, at |-> "new", log |-> <<>>, body |-> "-", exit |-> "-",
           exit_commits |-> 0, exit_rollbacks |-> 0, active |-> TRUE]

\* ------------------------------------------------- the repository layer
\* repository calls (add, update_fields, soft_delete) per behaviour
MaxRepoCalls == 3
\* rows handled by the repository, and the values of their status column
Ents == {"e1", "e2"}
StatusVals == {"DRAFT", "PENDING_APPROVAL"}
\* Python's None as a value and in place of a dict, and a row that is not in
\* the session
NoneVal == "None"
NoDict == [None |-> "None"]
Absent == [status |-> "absent", is_deleted |-> FALSE]
\* a repository wired with an AuditRepository, before any call: the rows as
\* the session sees them and as committed, the audit events and the mutation
\* calls of the open transaction, and the committed ones
NewRepo == [wired |-> TRUE,
            rows |-> [e \in Ents |-> Absent], crows |-> [e \in Ents |-> Absent],
            log |-> <<>>, clog |-> <<>>, calls |-> <<>>, ccalls |-> <<>>]

\* persisted leave requests in the creation model, the days of a window,
\* the users applying and the total_days they send
MaxRequests == 2
Days == 1..2
Applicants == {"u1", "u2"}
CreateTotalDays == {0, 1}
UserStatuses == {"ACTIVE", "INACTIVE", "SUSPENDED", "TERMINATED"}
\* no create_leave_request call yet
NoCreate == [user_id |-> "none", start_date |-> 0, end_date |-> 0, total_days |-> 0]
\* leave_requests and leave_request_dates empty; the latest call, its
\* result and the rows find_overlaps returned to it
NewCreation == [rows |-> <<>>, dates |-> {}, call |-> NoCreate, result |-> "none", overlaps |-> {},
                user_status |-> [u \in Applicants |-> "ACTIVE"]]

\* datetimes in half days, the policy rows and the scopes they belong to
MaxTime == 3
TicksPerDay == 2
Times == 0..MaxTime
PolIds == {"p1", "p2"}
Orgs == {"o1", "o2"}
LeaveTypes == {"lt1", "lt2"}
EligibilityTypes == {"immediate", "after_probation", "after_tenure", "custom"}
\* a leave_policies row that no query of the model selects
NoPolicy == [organization_id |-> "o2", leave_type_id |-> "lt2", is_active |-> FALSE,
             effective_from |-> 0, effective_to |-> None]
\* a user of organization o1 asking about leave type lt1, with no dates set,
\* and an IMMEDIATE policy: the inputs of a PolicyEngine call before it is made
NewPol == [policies |-> [p \in PolIds |-> NoPolicy],
           user |-> [organization_id |-> "o1", hire_date |-> None, probation_end_date |-> None],
           leave_type_id |-> "lt1",
           policy |-> [eligibility_type |-> "immediate", eligibility_tenure_days |-> None],
           on_datetime |-> 0,
           called |-> "none", result |-> "none", chosen |-> "none"]

\* the value of each balance component in the balance report model
MaxComponent == 1
Components == {"opening_balance", "accrued", "used", "pending", "adjusted",
               "carried_forward", "encashed", "expired"}
\* a balance row with nothing in it, before get_leave_balance is called
NewReport == [row |-> [c \in Components |-> 0], called |-> FALSE, available |-> 0]
\* the cap on list queries, and the table sizes, limits and offsets tried
MAX_QUERY_LIMIT == 1000
TableSizes == {0, 1, MAX_QUERY_LIMIT - 1, MAX_QUERY_LIMIT, MAX_QUERY_LIMIT + 1, 2 * MAX_QUERY_LIMIT}
Limits == {0, 1, 100, MAX_QUERY_LIMIT, MAX_QUERY_LIMIT + 1, 5 * MAX_QUERY_LIMIT}
Offsets == {0, 1}
\* a table with no matching row, before a list operation is called on it
NewListing == [rows |-> 0, limit |-> 100, offset |-> 0, op |-> "none", returned |-> 0]
\* the keys and the JSON-safe values of the dicts handed to dict_diff: two
\* strings, None and the float NaN
DiffKeys == {"a", "b"}
NaN == "nan"
DiffVals == {"x", "y", NoneVal, NaN}
\* two empty dicts, before dict_diff is called on them
NewDiffs == [old |-> <<>>, new |-> <<>>, called |-> FALSE, result |-> <<>>]
\* the day rows and the step rows one leave request can own
MaxOwnedRows == 2
OwnedIds == 1..MaxOwnedRows
\* a row that does not exist, and a row just inserted
NoRow == [present |-> FALSE, is_deleted |-> FALSE]
LiveRow == [present |-> TRUE, is_deleted |-> FALSE]
\* a leave request with no day rows and no steps
NewOwned == [request |-> LiveRow,
             dates |-> [i \in OwnedIds |-> NoRow],
             steps |-> [i \in OwnedIds |-> NoRow]]

VARIABLES
  reqs,       \* committed leave_requests rows
  steps,      \* workflow_steps rows; owner = "db" when committed, else the inserting transaction
  bal,        \* the employee's current-period leave_balances row
  audit,      \* committed audit_logs rows, counted per entity type
  workflowActive, \* an active WorkflowConfiguration exists for the organization
  completed,  \* per request: committed calls that returned WorkflowCompleted
  approvals,  \* per request: committed approve calls that returned normally
  submits,    \* per request: committed LeaveEngine.submit calls
  pc,         \* per transaction: position of its handler
  op,         \* per transaction: the operation and its arguments
  loc,        \* per transaction: entities loaded into the session
  wstep,      \* per transaction: flushed, uncommitted step status updates
  wreq,       \* per transaction: flushed, uncommitted request column updates
  waudit,     \* per transaction: flushed, uncommitted audit rows
  res,        \* per transaction: value returned / exception raised by the engine
  wbal,       \* per transaction: flushed, uncommitted leave_balances column updates
  bcall,      \* per transaction: the BalanceEngine call, its request and the row it loaded
  ledger,     \* the balance under one-after-the-other application of the committed calls
  uow,        \* a UnitOfWork object, its session and its caller
  repo,       \* a repository, its session's rows and the audit events appended
  creation,   \* a create_leave_request call: the user's requests, the input, the outcome
  pol,        \* a PolicyEngine call: the policies, the user, the outcome
  report,     \* a get_leave_balance call: the balance row and the available reported
  listing,    \* a list operation: the table size, the limit asked for, the rows returned
  diffs,      \* a dict_diff call: the two dicts and the result
  owned,      \* a leave request with its day rows and steps, and their is_deleted flags
  manager_id  \* users.manager_id of the request owner, None when they report to nobody

dbvars == <<reqs, steps, bal, audit, workflowActive, completed, approvals, submits>>
auxvars == <<report, listing, diffs, owned, manager_id>>
morevars == <<repo, creation, pol, auxvars>>
extvars == <<wbal, bcall, ledger, uow, morevars>>
vars == <<reqs, steps, bal, audit, workflowActive, completed, approvals, submits, pc, op, loc, wstep, wreq, waudit, res, wbal, bcall, ledger, uow, repo, creation, pol, report, listing, diffs, owned, manager_id>>

\* user.manager_id of the request owner: the first approver
ManagerOf(u) == IF u = Owner THEN manager_id ELSE None

\* the four models above with nothing called
AuxNew ==
  /\ report = NewReport
  /\ listing = NewListing
  /\ diffs = NewDiffs
  /\ owned = NewOwned

\* ------------------------------------------------------ LeaveBalance model
\* opening + accrued + carried_forward + adjusted - used - pending - encashed
\* - expired, for a balance row whose other columns are 0
available_balance(b) == b.opening - b.used - b.pending

\* ------------------------------------------------------- session helpers
\* a row is visible to t when it is committed or was inserted by t
Visible(t, s) == steps[s].status # "ABSENT" /\ steps[s].owner \in {"db", t}

\* read-your-writes: the status t reads for step s
StepSeen(t, s) == IF wstep[t][s] # NoWrite THEN wstep[t][s] ELSE steps[s].status

ApplyReqWrite(row, w) ==
  [f \in DOMAIN row |-> IF f \in w.set THEN w.val[f] ELSE row[f]]

ReqSeen(t, r) == ApplyReqWrite(reqs[r], wreq[t][r])

\* row locks held by open transactions other than t
StepLockedByOther(t, s) ==
  \E u \in Txns \ {t} : wstep[u][s] # NoWrite

ReqLockedByOther(t, r) ==
  \E u \in Txns \ {t} : wreq[u][r].set # {}

\* SELECT ... WHERE leave_request_id = r, as seen by t
StepsOf(t, r) == {s \in StepIds : Visible(t, s) /\ steps[s].req = r}

\* a lookup that never finds a successor: every approval completes the workflow
NextStepChoices_NoSuccessor(t, r, s) == {0}

\* the element that can follow s in the list ordered by step_order, 0 when s
\* is last. ORDER BY leaves the order of rows with equal step_order open, so
\* a row that ties with s may come before or after it.
NextStepChoices(t, r, s) ==
  LET ties == {x \in StepsOf(t, r) \ {s} : steps[x].ord = steps[s].ord}
      later == {x \in StepsOf(t, r) : steps[x].ord > steps[s].ord}
      firstLater == {x \in later : \A y \in later : steps[x].ord <= steps[y].ord}
  IN ties \cup (IF later = {} THEN {0} ELSE firstLater)

FreeIds == {s \in StepIds : steps[s].status = "ABSENT"}

AddAudit(a, e, k) == [a EXCEPT ![e] = @ + k]

\* ------------------------------------------------------------------ Init
\* The database when the handlers start: requests created as DRAFT by
\* create_leave_request or seeded as PENDING_APPROVAL without steps, a
\* balance row with nothing reserved or used, no workflow steps yet.
SeededRequest == [ReqDefaults EXCEPT !.status = "PENDING_APPROVAL", !.submitted_at = TRUE]

Scenarios ==
  {[row |-> ReqDefaults, opening |-> 1, wf |-> TRUE, mgr |-> 1],
   [row |-> ReqDefaults, opening |-> 0, wf |-> TRUE, mgr |-> 1],
   [row |-> ReqDefaults, opening |-> 1, wf |-> FALSE, mgr |-> 1],
   [row |-> SeededRequest, opening |-> 1, wf |-> TRUE, mgr |-> 1],
   [row |-> SeededRequest, opening |-> 0, wf |-> TRUE, mgr |-> 1],
   [row |-> SeededRequest, opening |-> 1, wf |-> FALSE, mgr |-> 1],
   [row |-> ReqDefaults, opening |-> 1, wf |-> TRUE, mgr |-> None]}

Init ==
  /\ \E sc \in Scenarios :
       /\ reqs = [r \in Reqs |-> sc.row]
       /\ bal = [opening |-> sc.opening, pending |-> 0, used |-> 0]
       /\ workflowActive = sc.wf
       /\ manager_id = sc.mgr
  /\ steps = [s \in StepIds |-> NoStep]
  /\ audit = ZeroAudit
  /\ completed = [r \in Reqs |-> 0]
  /\ approvals = [r \in Reqs |-> 0]
  /\ submits = [r \in Reqs |-> 0]
  /\ pc = [t \in Txns |-> "idle"]
  /\ op = [t \in Txns |-> NoOp]
  /\ loc = [t \in Txns |-> NoLoc]
  /\ wstep = [t \in Txns |-> [s \in StepIds |-> NoWrite]]
  /\ wreq = [t \in Txns |-> [r \in Reqs |-> NoReqWrite]]
  /\ waudit = [t \in Txns |-> ZeroAudit]
  /\ res = [t \in Txns |-> NoRes]
  /\ wbal = [t \in Txns |-> NoBalWrite]
  /\ bcall = [t \in Txns |-> NoCall]
  /\ ledger = NewLedger(bal)
  /\ uow = NewUow
  /\ repo = NewRepo
  /\ creation = NewCreation
  /\ pol = NewPol
  /\ AuxNew

\* ------------------------------------------------------------ handlers
MkOp(k, r, s, a) == [kind |-> k, req |-> r, step |-> s, actor |-> a, n |-> 0]

\* get_uow / UnitOfWork.__enter__: a handler opens its session and
\* transaction and calls one engine operation c
Begin(t, c) ==
  /\ pc[t] = "idle"
  /\ op' = [op EXCEPT ![t] = c]

\* an exception propagates out of the engine: the handler's locals are gone,
\* the flushed writes stay in the open transaction until __exit__
Raise(t, exc) ==
  /\ pc' = [pc EXCEPT ![t] = "failed"]
  /\ res' = [res EXCEPT ![t] = [kind |-> exc, step |-> 0, final |-> "-", is_final |-> FALSE]]
  /\ op' = [op EXCEPT ![t] = NoOp]
  /\ loc' = [loc EXCEPT ![t] = NoLoc]

\* ------------------------------------------------------- WorkflowEngine
\* a decision check that does not compare the actor with the step's approver
DecisionCheck_AnyActor(t, s, actor) ==
  IF ~Visible(t, s) THEN "EntityNotFoundException"
  ELSE IF StepSeen(t, s) # "PENDING" THEN "WorkflowStateException"
  ELSE IF ReqSeen(t, steps[s].req).status # "PENDING_APPROVAL" THEN "WorkflowStateException"
  ELSE "ok"

\* the identity and state preconditions shared by approve and reject:
\* the exception raised, or "ok"
DecisionCheck(t, s, actor) ==
  IF ~Visible(t, s) THEN "EntityNotFoundException"
  ELSE IF steps[s].approver # actor THEN "ApprovalException"
  ELSE IF StepSeen(t, s) # "PENDING" THEN "WorkflowStateException"
  ELSE IF ReqSeen(t, steps[s].req).status # "PENDING_APPROVAL" THEN "WorkflowStateException"
  ELSE "ok"

\* status given to the step created at index idx (0-based)
InitialStepStatus(idx) == IF idx > 0 THEN "PENDING" ELSE "PENDING"

\* instantiate_steps: one INSERT per approver, step_order = 0..n-1; then the
\* update of the first step to PENDING, which changes no column.  Each add
\* and the update emit one audit row.
InsertSteps(t, r, approvers, ids) ==
  /\ steps' = [s \in StepIds |->
                 IF \E i \in 1..Len(approvers) : ids[i] = s
                 THEN LET i == CHOOSE j \in 1..Len(approvers) : ids[j] = s
                      IN [req |-> r, ord |-> i - 1, approver |-> approvers[i],
                          status |-> InitialStepStatus(i - 1), owner |-> t]
                 ELSE steps[s]]
  /\ waudit' = [waudit EXCEPT ![t] = AddAudit(@, "WorkflowStep", Len(approvers) + 1)]

\* the n smallest free row identifiers, in increasing order
FreshIds(n) ==
  [i \in 1..n |-> CHOOSE s \in FreeIds : Cardinality({x \in FreeIds : x < s}) = i - 1]

\* WorkflowEngine.instantiate_steps called on its own, inside a Unit of Work
instantiate_steps(t) ==
  \E r \in Reqs, n \in 0..MaxApprovers :
    /\ pc[t] = "idle"
    /\ IF n = 0
       THEN /\ Raise(t, "WorkflowStateException")
            /\ UNCHANGED <<extvars, dbvars, wstep, wreq, waudit>>
       ELSE /\ Begin(t, [MkOp("instantiate", r, 0, 0) EXCEPT !.n = n])
            /\ Cardinality(FreeIds) >= n
            /\ InsertSteps(t, r, Chain(n), FreshIds(n))
            /\ pc' = [pc EXCEPT ![t] = "returned"]
            /\ res' = [res EXCEPT ![t] = [kind |-> "Steps", step |-> FreshIds(n)[1], final |-> "-", is_final |-> FALSE]]
            /\ UNCHANGED <<extvars, reqs, bal, audit, workflowActive, completed, approvals, submits, loc, wstep, wreq>>

\* approve / LeaveEngine.approve_step: load the step and its request, check
approve_load(t) ==
  \E s \in StepIds, a \in Users :
    /\ pc[t] = "idle"
    /\ IF DecisionCheck(t, s, a) # "ok"
       THEN Raise(t, DecisionCheck(t, s, a))
       ELSE /\ approvals[steps[s].req] < MaxApprovals
            /\ Begin(t, MkOp("approve", steps[s].req, s, a))
            /\ pc' = [pc EXCEPT ![t] = "upd_step"]
            /\ loc' = [loc EXCEPT ![t].rq = ReqSeen(t, steps[s].req).status]
            /\ UNCHANGED res
    /\ UNCHANGED <<extvars, dbvars, wstep, wreq, waudit>>

\* approve: UPDATE the step to APPROVED (audited), then SELECT the request's
\* steps ordered by step_order and locate the step after the approved one
approve_step_update(t) ==
  /\ pc[t] = "upd_step"
  /\ op[t].kind = "approve"
  /\ ~StepLockedByOther(t, op[t].step)
  /\ \E nx \in NextStepChoices(t, op[t].req, op[t].step) :
       /\ wstep' = [wstep EXCEPT ![t][op[t].step] = "APPROVED"]
       /\ loc' = [loc EXCEPT ![t].nxt = nx,
                             ![t].nxtSt = IF nx = 0 THEN "-" ELSE StepSeen(t, nx)]
  /\ waudit' = [waudit EXCEPT ![t] = AddAudit(@, "WorkflowStep", 1)]
  /\ pc' = [pc EXCEPT ![t] = "finish"]
  /\ UNCHANGED <<extvars, dbvars, op, wreq, res>>

\* approve: activate the next step and return StepActivated, or approve the
\* request and return WorkflowCompleted(APPROVED)
approve_finish(t) ==
  /\ pc[t] = "finish"
  /\ op[t].kind = "approve"
  /\ LET r == op[t].req
         nx == loc[t].nxt
     IN IF nx # 0
        THEN /\ IF loc[t].nxtSt # "PENDING"
                THEN /\ ~StepLockedByOther(t, nx)
                     /\ wstep' = [wstep EXCEPT ![t][nx] = "PENDING"]
                ELSE UNCHANGED wstep
             /\ waudit' = [waudit EXCEPT ![t] = AddAudit(@, "WorkflowStep", 1)]
             /\ res' = [res EXCEPT ![t] = [kind |-> "StepActivated", step |-> nx, final |-> "-", is_final |-> FALSE]]
             /\ UNCHANGED wreq
        ELSE /\ ~ReqLockedByOther(t, r)
             /\ wreq' = [wreq EXCEPT ![t][r] =
                           [set |-> @.set \cup {"status", "decided_at", "decided_by"},
                            val |-> [@.val EXCEPT !.status = "APPROVED", !.decided_at = TRUE,
                                                  !.decided_by = op[t].actor]]]
             /\ waudit' = [waudit EXCEPT ![t] = AddAudit(@, "LeaveRequest", 1)]
             /\ res' = [res EXCEPT ![t] = [kind |-> "WorkflowCompleted", step |-> 0, final |-> "APPROVED", is_final |-> TRUE]]
             /\ UNCHANGED wstep
  /\ pc' = [pc EXCEPT ![t] = "returned"]
  /\ UNCHANGED <<extvars, dbvars, op, loc>>

\* reject / LeaveEngine.reject_step: load the step and its request, check
reject_load(t) ==
  \E s \in StepIds, a \in Users :
    /\ pc[t] = "idle"
    /\ IF DecisionCheck(t, s, a) # "ok"
       THEN Raise(t, DecisionCheck(t, s, a))
       ELSE /\ Begin(t, MkOp("reject", steps[s].req, s, a))
            /\ pc' = [pc EXCEPT ![t] = "upd_step"]
            /\ loc' = [loc EXCEPT ![t].rq = ReqSeen(t, steps[s].req).status]
            /\ UNCHANGED res
    /\ UNCHANGED <<extvars, dbvars, wstep, wreq, waudit>>

\* reject: UPDATE the step to REJECTED (audited)
reject_step_update(t) ==
  /\ pc[t] = "upd_step"
  /\ op[t].kind = "reject"
  /\ ~StepLockedByOther(t, op[t].step)
  /\ wstep' = [wstep EXCEPT ![t][op[t].step] = "REJECTED"]
  /\ waudit' = [waudit EXCEPT ![t] = AddAudit(@, "WorkflowStep", 1)]
  /\ pc' = [pc EXCEPT ![t] = "finish"]
  /\ UNCHANGED <<extvars, dbvars, op, loc, wreq, res>>

\* reject: UPDATE the request to REJECTED (audited), return WorkflowCompleted
reject_finish(t) ==
  /\ pc[t] = "finish"
  /\ op[t].kind = "reject"
  /\ ~ReqLockedByOther(t, op[t].req)
  /\ wreq' = [wreq EXCEPT ![t][op[t].req] =
                [set |-> @.set \cup {"status", "decided_at", "decided_by"},
                 val |-> [@.val EXCEPT !.status = "REJECTED", !.decided_at = TRUE,
                                       !.decided_by = op[t].actor]]]
  /\ waudit' = [waudit EXCEPT ![t] = AddAudit(@, "LeaveRequest", 1)]
  /\ res' = [res EXCEPT ![t] = [kind |-> "WorkflowCompleted", step |-> 0, final |-> "REJECTED", is_final |-> TRUE]]
  /\ pc' = [pc EXCEPT ![t] = "returned"]
  /\ UNCHANGED <<extvars, dbvars, op, loc, wstep>>

\* a withdraw that marks the request before it checks the request's state
withdraw_load_WriteFirst(t) ==
  \E r \in Reqs, a \in Users :
    /\ pc[t] = "idle"
    /\ IF RequestOwner(r) # a
       THEN /\ Raise(t, "ApprovalException")
            /\ UNCHANGED <<wreq, waudit>>
       ELSE IF ReqSeen(t, r).status # "PENDING_APPROVAL"
       THEN /\ Raise(t, "WorkflowStateException")
            /\ ~ReqLockedByOther(t, r)
            /\ wreq' = [wreq EXCEPT ![t][r] =
                          [set |-> @.set \cup {"status", "cancelled_at"},
                           val |-> [@.val EXCEPT !.status = "WITHDRAWN", !.cancelled_at = TRUE]]]
            /\ waudit' = [waudit EXCEPT ![t] = AddAudit(@, "LeaveRequest", 1)]
       ELSE /\ Begin(t, MkOp("withdraw", r, 0, a))
            /\ pc' = [pc EXCEPT ![t] = "upd_req"]
            /\ loc' = [loc EXCEPT ![t].rq = ReqSeen(t, r).status]
            /\ UNCHANGED <<res, wreq, waudit>>
    /\ UNCHANGED <<extvars, dbvars, wstep>>

\* a withdraw that does not check who the actor is
withdraw_load_AnyActor(t) ==
  \E r \in Reqs, a \in Users :
    /\ pc[t] = "idle"
    /\ IF ReqSeen(t, r).status # "PENDING_APPROVAL"
       THEN Raise(t, "WorkflowStateException")
       ELSE /\ Begin(t, MkOp("withdraw", r, 0, a))
            /\ pc' = [pc EXCEPT ![t] = "upd_req"]
            /\ loc' = [loc EXCEPT ![t].rq = ReqSeen(t, r).status]
            /\ UNCHANGED res
    /\ UNCHANGED <<extvars, dbvars, wstep, wreq, waudit>>

\* withdraw / LeaveEngine.withdraw_request: load the request, check owner and state
withdraw_load(t) ==
  \E r \in Reqs, a \in Users :
    /\ pc[t] = "idle"
    /\ IF RequestOwner(r) # a
       THEN Raise(t, "ApprovalException")
       ELSE IF ReqSeen(t, r).status # "PENDING_APPROVAL"
       THEN Raise(t, "WorkflowStateException")
       ELSE /\ Begin(t, MkOp("withdraw", r, 0, a))
            /\ pc' = [pc EXCEPT ![t] = "upd_req"]
            /\ loc' = [loc EXCEPT ![t].rq = ReqSeen(t, r).status]
            /\ UNCHANGED res
    /\ UNCHANGED <<extvars, dbvars, wstep, wreq, waudit>>

\* withdraw: UPDATE the request to WITHDRAWN (audited), then SELECT its
\* PENDING steps
withdraw_request_update(t) ==
  /\ pc[t] = "upd_req"
  /\ op[t].kind = "withdraw"
  /\ ~ReqLockedByOther(t, op[t].req)
  /\ wreq' = [wreq EXCEPT ![t][op[t].req] =
                [set |-> @.set \cup {"status", "cancelled_at"},
                 val |-> [@.val EXCEPT !.status = "WITHDRAWN", !.cancelled_at = TRUE]]]
  /\ loc' = [loc EXCEPT ![t].sel = {s \in StepsOf(t, op[t].req) : StepSeen(t, s) = "PENDING"}]
  /\ waudit' = [waudit EXCEPT ![t] = AddAudit(@, "LeaveRequest", 1)]
  /\ pc' = [pc EXCEPT ![t] = "sweep"]
  /\ UNCHANGED <<extvars, dbvars, op, wstep, res>>

\* withdraw: UPDATE every selected step to SKIPPED (each audited), return
\* WorkflowCompleted(WITHDRAWN)
withdraw_sweep(t) ==
  /\ pc[t] = "sweep"
  /\ op[t].kind = "withdraw"
  /\ \A s \in loc[t].sel : ~StepLockedByOther(t, s)
  /\ wstep' = [wstep EXCEPT ![t] = [s \in StepIds |-> IF s \in loc[t].sel THEN "SKIPPED" ELSE @[s]]]
  /\ waudit' = [waudit EXCEPT ![t] = AddAudit(@, "WorkflowStep", Cardinality(loc[t].sel))]
  /\ res' = [res EXCEPT ![t] = [kind |-> "WorkflowCompleted", step |-> 0, final |-> "WITHDRAWN", is_final |-> TRUE]]
  /\ pc' = [pc EXCEPT ![t] = "returned"]
  /\ UNCHANGED <<extvars, dbvars, op, loc, wreq>>

\* ---------------------------------------------------------- LeaveEngine
\* submit: approver_ids built from the owner's manager
ApproverIds(r) ==
  IF ManagerOf(RequestOwner(r)) # None THEN <<ManagerOf(RequestOwner(r))>> ELSE <<>>

\* a submit that does not look at the request's status
SubmitCheck_AnyStatus(t, r) ==
  IF ~workflowActive \/ ApproverIds(r) = <<>> THEN "WorkflowNotFoundException"
  ELSE "ok"

\* submit's preconditions in the order of the code: the request is DRAFT,
\* resolve_workflow finds an active workflow, the owner has a manager; the
\* exception raised, or "ok"
SubmitCheck(t, r) ==
  IF ReqSeen(t, r).status # "DRAFT" THEN "WorkflowStateException"
  ELSE IF ~workflowActive \/ ApproverIds(r) = <<>> THEN "WorkflowNotFoundException"
  ELSE "ok"

\* submit: load the request, check DRAFT, resolve the workflow and approvers
submit_load(t) ==
  \E r \in Reqs :
    /\ pc[t] = "idle"
    /\ IF SubmitCheck(t, r) # "ok"
       THEN Raise(t, SubmitCheck(t, r))
       ELSE /\ Begin(t, MkOp("submit", r, 0, 0))
            /\ pc' = [pc EXCEPT ![t] = "inst"]
            /\ loc' = [loc EXCEPT ![t].rq = ReqSeen(t, r).status]
            /\ UNCHANGED res
    /\ UNCHANGED <<extvars, dbvars, wstep, wreq, waudit>>

\* submit: WorkflowEngine.instantiate_steps with the resolved approvers
submit_instantiate(t) ==
  /\ pc[t] = "inst"
  /\ op[t].kind = "submit"
  /\ Cardinality(FreeIds) >= Len(ApproverIds(op[t].req))
  /\ InsertSteps(t, op[t].req, ApproverIds(op[t].req), FreshIds(Len(ApproverIds(op[t].req))))
  /\ pc' = [pc EXCEPT ![t] = "upd_req"]
  /\ UNCHANGED <<extvars, reqs, bal, audit, workflowActive, completed, approvals, submits, op, loc, wstep, wreq, res>>

\* submit: UPDATE the request to PENDING_APPROVAL (audited) and return it.
\* No BalanceEngine call is made anywhere on this path.
submit_finish(t) ==
  /\ pc[t] = "upd_req"
  /\ op[t].kind = "submit"
  /\ ~ReqLockedByOther(t, op[t].req)
  /\ wreq' = [wreq EXCEPT ![t][op[t].req] =
                [set |-> @.set \cup {"status", "submitted_at"},
                 val |-> [@.val EXCEPT !.status = "PENDING_APPROVAL", !.submitted_at = TRUE]]]
  /\ waudit' = [waudit EXCEPT ![t] = AddAudit(@, "LeaveRequest", 1)]
  /\ res' = [res EXCEPT ![t] = [kind |-> "Submitted", step |-> 0, final |-> "PENDING_APPROVAL", is_final |-> FALSE]]
  /\ pc' = [pc EXCEPT ![t] = "returned"]
  /\ UNCHANGED <<extvars, dbvars, op, loc, wstep>>

\* ---------------------------------------------------------- BalanceEngine
\* the leave_balances row after the column updates w
ApplyBalWrite(b, w) ==
  [opening |-> b.opening,
   pending |-> IF "pending" \in w.cols THEN w.pending ELSE b.pending,
   used |-> IF "used" \in w.cols THEN w.used ELSE b.used]

\* the leave_balances row as a SELECT of transaction t returns it
BalSeen(t) == ApplyBalWrite(bal, wbal[t])

\* another open transaction has updated the leave_balances row
BalLockedByOther(t) == \E u \in Txns \ {t} : wbal[u] # NoBalWrite

\* one-after-the-other bookkeeping of the call transaction t commits
Post(l, t) ==
  IF bcall[t].kind = "none" THEN l
  ELSE LET k == bcall[t].kind
           q == bcall[t].q
           d == total_days[q]
           wrote == wbal[t] # NoBalWrite
       IN [pending |-> IF ~wrote THEN l.pending
                       ELSE IF k = "on_submit" THEN l.pending + d ELSE l.pending - d,
           used |-> IF wrote /\ k = "on_approve" THEN l.used + d ELSE l.used,
           pending0 |-> l.pending0,
           used0 |-> l.used0,
           open |-> IF k = "on_submit"
                    THEN (IF wrote THEN l.open \cup {q} ELSE l.open)
                    ELSE l.open \ {q},
           n |-> IF wrote THEN l.n + 1 ELSE l.n,
           last |-> IF k = "on_submit" /\ wrote THEN q ELSE "none"]

\* the call of transaction t: operation k on request q, with the row that
\* get_current_balance returned (found = FALSE: no row covers the start date)
MkCall(k, q, found, row) ==
  [kind |-> k, q |-> q, found |-> found, row |-> row,
   available |-> IF found THEN available_balance(row) ELSE 0,
   requested |-> total_days[q]]

\* on_submit: SELECT the current balance row, check available >= total_days
on_submit_load(t) ==
  \E q \in BalReqs, found \in BOOLEAN :
    /\ pc[t] = "idle"
    /\ ledger.n < MaxBalOps
    /\ bcall' = [bcall EXCEPT ![t] = MkCall("on_submit", q, found, BalSeen(t))]
    /\ IF ~found \/ ~(available_balance(BalSeen(t)) >= total_days[q])
       THEN Raise(t, "InsufficientBalanceException")
       ELSE /\ pc' = [pc EXCEPT ![t] = "bal_update"]
            /\ UNCHANGED <<op, loc, res>>
    /\ UNCHANGED <<dbvars, wstep, wreq, waudit, wbal, ledger, uow, morevars>>

\* an on_submit that writes the pending value back without adding the days
on_submit_update_NoReserve(t) ==
  /\ pc[t] = "bal_update"
  /\ bcall[t].kind = "on_submit"
  /\ ~BalLockedByOther(t)
  /\ wbal' = [wbal EXCEPT ![t] = [cols |-> @.cols \cup {"pending"},
                                  pending |-> bcall[t].row.pending,
                                  used |-> @.used]]
  /\ waudit' = [waudit EXCEPT ![t] = AddAudit(@, "LeaveBalance", 1)]
  /\ pc' = [pc EXCEPT ![t] = "returned"]
  /\ UNCHANGED <<dbvars, op, loc, wstep, wreq, res, bcall, ledger, uow, morevars>>

\* on_submit: UPDATE pending from the loaded row (audited)
on_submit_update(t) ==
  /\ pc[t] = "bal_update"
  /\ bcall[t].kind = "on_submit"
  /\ ~BalLockedByOther(t)
  /\ wbal' = [wbal EXCEPT ![t] = [cols |-> @.cols \cup {"pending"},
                                  pending |-> bcall[t].row.pending + total_days[bcall[t].q],
                                  used |-> @.used]]
  /\ waudit' = [waudit EXCEPT ![t] = AddAudit(@, "LeaveBalance", 1)]
  /\ pc' = [pc EXCEPT ![t] = "returned"]
  /\ UNCHANGED <<dbvars, op, loc, wstep, wreq, res, bcall, ledger, uow, morevars>>

\* on_approve: SELECT the current balance row, check pending >= total_days
on_approve_load(t) ==
  \E q \in BalReqs, found \in BOOLEAN :
    /\ pc[t] = "idle"
    /\ ledger.n < MaxBalOps
    /\ bcall' = [bcall EXCEPT ![t] = MkCall("on_approve", q, found, BalSeen(t))]
    /\ IF ~found \/ ~(BalSeen(t).pending >= total_days[q])
       THEN Raise(t, "RuntimeError")
       ELSE /\ pc' = [pc EXCEPT ![t] = "bal_update"]
            /\ UNCHANGED <<op, loc, res>>
    /\ UNCHANGED <<dbvars, wstep, wreq, waudit, wbal, ledger, uow, morevars>>

\* an on_approve that releases the reserved days without counting them used
on_approve_update_NoUse(t) ==
  /\ pc[t] = "bal_update"
  /\ bcall[t].kind = "on_approve"
  /\ ~BalLockedByOther(t)
  /\ wbal' = [wbal EXCEPT ![t] = [cols |-> @.cols \cup {"pending", "used"},
                                  pending |-> bcall[t].row.pending - total_days[bcall[t].q],
                                  used |-> bcall[t].row.used]]
  /\ waudit' = [waudit EXCEPT ![t] = AddAudit(@, "LeaveBalance", 1)]
  /\ pc' = [pc EXCEPT ![t] = "returned"]
  /\ UNCHANGED <<dbvars, op, loc, wstep, wreq, res, bcall, ledger, uow, morevars>>

\* on_approve: UPDATE pending and used from the loaded row (audited)
on_approve_update(t) ==
  /\ pc[t] = "bal_update"
  /\ bcall[t].kind = "on_approve"
  /\ ~BalLockedByOther(t)
  /\ wbal' = [wbal EXCEPT ![t] = [cols |-> @.cols \cup {"pending", "used"},
                                  pending |-> bcall[t].row.pending - total_days[bcall[t].q],
                                  used |-> bcall[t].row.used + total_days[bcall[t].q]]]
  /\ waudit' = [waudit EXCEPT ![t] = AddAudit(@, "LeaveBalance", 1)]
  /\ pc' = [pc EXCEPT ![t] = "returned"]
  /\ UNCHANGED <<dbvars, op, loc, wstep, wreq, res, bcall, ledger, uow, morevars>>

\* on_reject and on_withdraw: SELECT the current balance row; return without
\* a write when there is none or when pending < total_days
release_load(t, k) ==
  \E q \in BalReqs, found \in BOOLEAN :
    /\ pc[t] = "idle"
    /\ ledger.n < MaxBalOps
    /\ bcall' = [bcall EXCEPT ![t] = MkCall(k, q, found, BalSeen(t))]
    /\ pc' = [pc EXCEPT ![t] = IF ~found \/ ~(BalSeen(t).pending >= total_days[q])
                               THEN "returned" ELSE "bal_update"]
    /\ UNCHANGED <<dbvars, op, loc, res, wstep, wreq, waudit, wbal, ledger, uow, morevars>>

\* on_reject and on_withdraw: UPDATE pending from the loaded row (audited)
release_update(t, k) ==
  /\ pc[t] = "bal_update"
  /\ bcall[t].kind = k
  /\ ~BalLockedByOther(t)
  /\ wbal' = [wbal EXCEPT ![t] = [cols |-> @.cols \cup {"pending"},
                                  pending |-> bcall[t].row.pending - total_days[bcall[t].q],
                                  used |-> @.used]]
  /\ waudit' = [waudit EXCEPT ![t] = AddAudit(@, "LeaveBalance", 1)]
  /\ pc' = [pc EXCEPT ![t] = "returned"]
  /\ UNCHANGED <<dbvars, op, loc, wstep, wreq, res, bcall, ledger, uow, morevars>>

on_reject_load(t) == release_load(t, "on_reject")

on_reject_update(t) == release_update(t, "on_reject")

on_withdraw_load(t) == release_load(t, "on_withdraw")

on_withdraw_update(t) == release_update(t, "on_withdraw")

\* ---------------------------------------------------------- transactions
ResetTxn(t) ==
  /\ pc' = [pc EXCEPT ![t] = "idle"]
  /\ op' = [op EXCEPT ![t] = NoOp]
  /\ loc' = [loc EXCEPT ![t] = NoLoc]
  /\ wstep' = [wstep EXCEPT ![t] = [s \in StepIds |-> NoWrite]]
  /\ wreq' = [wreq EXCEPT ![t] = [r \in Reqs |-> NoReqWrite]]
  /\ waudit' = [waudit EXCEPT ![t] = ZeroAudit]
  /\ res' = [res EXCEPT ![t] = NoRes]
  /\ wbal' = [wbal EXCEPT ![t] = NoBalWrite]
  /\ bcall' = [bcall EXCEPT ![t] = NoCall]

\* the step rows after t's transaction commits
CommitSteps(t) ==
  [s \in StepIds |->
     IF steps[s].owner = t THEN [steps[s] EXCEPT !.owner = "db", !.status = StepSeen(t, s)]
     ELSE IF wstep[t][s] # NoWrite THEN [steps[s] EXCEPT !.status = wstep[t][s]]
     ELSE steps[s]]

\* the step rows after t's transaction rolls back
RollbackSteps(t) ==
  [s \in StepIds |-> IF steps[s].owner = t THEN NoStep ELSE steps[s]]

\* __exit__ with no exception: commit, close the session
Commit(t) ==
  /\ pc[t] = "returned"
  /\ steps' = CommitSteps(t)
  /\ reqs' = [r \in Reqs |-> ApplyReqWrite(reqs[r], wreq[t][r])]
  /\ audit' = [e \in AuditEntities |-> audit[e] + waudit[t][e]]
  /\ completed' = IF res[t].kind = "WorkflowCompleted"
                  THEN [completed EXCEPT ![op[t].req] = @ + 1]
                  ELSE completed
  /\ approvals' = IF op[t].kind = "approve"
                  THEN [approvals EXCEPT ![op[t].req] = @ + 1]
                  ELSE approvals
  /\ submits' = IF op[t].kind = "submit"
                THEN [submits EXCEPT ![op[t].req] = @ + 1]
                ELSE submits
  /\ ResetTxn(t)
  /\ bal' = ApplyBalWrite(bal, wbal[t])
  /\ ledger' = Post(ledger, t)
  /\ UNCHANGED <<workflowActive, uow, morevars>>

\* a rollback that keeps the audit rows the scope had flushed, as an audit
\* log written through a session of its own would
Rollback_KeepsAudit(t) ==
  /\ pc[t] = "failed"
  /\ steps' = RollbackSteps(t)
  /\ audit' = [e \in AuditEntities |-> audit[e] + waudit[t][e]]
  /\ ResetTxn(t)
  /\ UNCHANGED <<reqs, bal, workflowActive, completed, approvals, submits, ledger, uow, morevars>>

\* __exit__ with an exception: rollback, close the session
Rollback(t) ==
  /\ pc[t] = "failed"
  /\ steps' = RollbackSteps(t)
  /\ ResetTxn(t)
  /\ UNCHANGED <<reqs, bal, audit, workflowActive, completed, approvals, submits, ledger, uow, morevars>>

\* an exception thrown into the scope from outside the engines: a database
\* error, a deadlock abort, a cancelled handler, a failing response model
Fail(t) ==
  /\ pc[t] \notin {"idle", "failed"}
  /\ Raise(t, "Exception")
  /\ UNCHANGED <<extvars, dbvars, wstep, wreq, waudit>>

Next ==
  \E t \in Txns :
    \/ instantiate_steps(t)
    \/ submit_load(t)
    \/ submit_instantiate(t)
    \/ submit_finish(t)
    \/ approve_load(t)
    \/ approve_step_update(t)
    \/ approve_finish(t)
    \/ reject_load(t)
    \/ reject_step_update(t)
    \/ reject_finish(t)
    \/ withdraw_load(t)
    \/ withdraw_request_update(t)
    \/ withdraw_sweep(t)
    \/ Commit(t)
    \/ Rollback(t)
    \/ Fail(t)

Spec == Init /\ [][Next]_vars

\* ------------------------------------------- approvers acting in order
\* The scenario of a workflow whose approvers act one after another, each on
\* the step at the cursor: the same handlers, called one at a time, with no
\* reject, withdraw or outside failure.

\* every other handler has finished
Quiet(t) == \A u \in Txns \ {t} : pc[u] = "idle"

\* s is the cursor as t reads it: PENDING, every earlier step APPROVED
IsCursor(t, s) ==
  /\ Visible(t, s)
  /\ StepSeen(t, s) = "PENDING"
  /\ \A x \in StepsOf(t, steps[s].req) : steps[x].ord < steps[s].ord => StepSeen(t, x) = "APPROVED"

\* the request gets its workflow once, from instantiate_steps ...
InOrder_instantiate(t) ==
  /\ Quiet(t)
  /\ FreeIds = StepIds
  /\ instantiate_steps(t)
  /\ pc'[t] = "returned"

\* ... or from submit
InOrder_submit(t) ==
  /\ Quiet(t)
  /\ FreeIds = StepIds
  /\ submit_load(t)
  /\ pc'[t] = "inst"

\* the approver assigned to the cursor step calls approve on it
InOrder_approve(t) ==
  /\ Quiet(t)
  /\ approve_load(t)
  /\ pc'[t] = "upd_step"
  /\ IsCursor(t, op'[t].step)

ApproverStep(t) ==
  \/ InOrder_approve(t)
  \/ approve_step_update(t)
  \/ approve_finish(t)
  \/ Commit(t)

NextInOrder ==
  \E t \in Txns :
    \/ InOrder_instantiate(t)
    \/ InOrder_submit(t)
    \/ submit_instantiate(t)
    \/ submit_finish(t)
    \/ InOrder_approve(t)
    \/ approve_step_update(t)
    \/ approve_finish(t)
    \/ Commit(t)

\* every handler that can take a step eventually does: approvers keep acting
SpecInOrder ==
  Init /\ [][NextInOrder]_vars /\ \A t \in Txns : WF_vars(ApproverStep(t))

\* ------------------------------------------------------ committed views
CommittedStepIds(r) == {s \in StepIds : steps[s].owner = "db" /\ steps[s].req = r}

PendingSteps(r) == {s \in CommittedStepIds(r) : steps[s].status = "PENDING"}

\* the committed rows: what a new transaction would read
CommittedDB ==
  <<reqs, [s \in StepIds |-> IF steps[s].owner = "db" THEN steps[s] ELSE NoStep], bal, audit>>

\* t's handler returned normally and its Unit of Work commits in this step
Commits(t, kind) == pc[t] = "returned" /\ op[t].kind = kind /\ pc'[t] = "idle"

\* r went through LeaveEngine.submit with a balance that covered it: the
\* requests for which the specification has a reservation in place
Reserved(r) == submits[r] >= 1 /\ bal.opening >= TotalDays[r]

\* --------------------------------------------------------------- claims

\* C1: every submitted request has at most one PENDING workflow step, and
\* exactly one iff the request is PENDING_APPROVAL.
C1_SinglePendingStep ==
  \A r \in Reqs :
    (CommittedStepIds(r) # {} /\ reqs[r].status # "DRAFT") =>
      /\ Cardinality(PendingSteps(r)) <= 1
      /\ (Cardinality(PendingSteps(r)) = 1) <=> (reqs[r].status = "PENDING_APPROVAL")

\* C2: approve and reject pass their precondition checks only on the cursor
\* step: every step of the request with a smaller step_order is APPROVED.
C2_OnlyCursorStepDecided ==
  [][\A t \in Txns :
       (pc[t] = "idle" /\ pc'[t] = "upd_step") =>
         \A x \in StepsOf(t, op'[t].req) :
           steps[x].ord < steps[op'[t].step].ord => StepSeen(t, x) = "APPROVED"]_vars

\* C3: a request is APPROVED only when every one of its workflow steps is
\* APPROVED.
C3_ApprovedOnlyWhenAllStepsApproved ==
  \A r \in Reqs :
    reqs[r].status = "APPROVED" =>
      \A s \in CommittedStepIds(r) : steps[s].status = "APPROVED"

\* C5: a successful submit of a request with total_days = d that the balance
\* covers raises pending by d (and so lowers available by d) in the committing
\* transaction.
C5_SubmitReservesBalance ==
  [][\A t \in Txns :
       (Commits(t, "submit") /\ available_balance(bal) >= TotalDays[op[t].req]) =>
         /\ bal'.pending = bal.pending + TotalDays[op[t].req]
         /\ available_balance(bal') = available_balance(bal) - TotalDays[op[t].req]]_vars

\* C6: the approval that completes the workflow moves total_days from pending
\* to used in the committing transaction; a non-final approval leaves the
\* balance unchanged.
C6_FinalApproveConsumesBalance ==
  [][\A t \in Txns :
       (Commits(t, "approve") /\ Reserved(op[t].req)) =>
         IF res[t].kind = "WorkflowCompleted"
         THEN /\ bal'.pending = bal.pending - TotalDays[op[t].req]
              /\ bal'.used = bal.used + TotalDays[op[t].req]
         ELSE bal' = bal]_vars

\* C7: a reject or withdraw that completes a submitted request releases its
\* reservation in the committing transaction: pending drops by total_days,
\* used is unchanged.
C7_RejectWithdrawReleaseBalance ==
  [][\A t \in Txns :
       ((Commits(t, "reject") \/ Commits(t, "withdraw")) /\ Reserved(op[t].req)) =>
         /\ bal'.pending = bal.pending - TotalDays[op[t].req]
         /\ bal'.used = bal.used]_vars

\* C8: a submit of a request whose total_days exceeds the available balance
\* never commits: the request stays DRAFT and gets no workflow steps.
C8_InsufficientBalanceBlocksSubmit ==
  [][\A t \in Txns :
       Commits(t, "submit") => available_balance(bal) >= TotalDays[op[t].req]]_vars

\* C9: the committed balance, steps, requests and audit rows change only when
\* a Unit of Work whose body returned normally commits; a scope that raised,
\* whatever it had flushed, leaves them as they were.
C9_FailedScopeChangesNothing ==
  [][CommittedDB' # CommittedDB =>
       \E t \in Txns : pc[t] = "returned" /\ pc'[t] = "idle"]_vars

\* C9 witness: a scope that raised after flushing step rows and audit rows.
C9_Witness ==
  \E t \in Txns :
    /\ pc[t] = "failed"
    /\ waudit[t]["WorkflowStep"] > 0
    /\ \E s \in StepIds : steps[s].owner = t

\* C10: of the decisions taken concurrently on one submitted request at most
\* one takes effect: no request is completed (approved, rejected, withdrawn)
\* twice.
C10_DecisionsSerialize ==
  \A r \in Reqs : submits[r] >= 1 => completed[r] <= 1

\* C4: with the approvers acting in step order, an approval of a step that
\* has a successor returns StepActivated(successor, is_final = false) and
\* leaves the request PENDING_APPROVAL; the approval of the last step returns
\* WorkflowCompleted(APPROVED) with the request APPROVED and decided_by its
\* approver; the request is APPROVED exactly when the number of approvals
\* equals the number of steps, and a submitted workflow eventually gets there.
C4_Results ==
  \A t \in Txns :
    (pc[t] = "returned" /\ op[t].kind = "approve") =>
      LET s == op[t].step
          r == op[t].req
          later == {x \in CommittedStepIds(r) : steps[x].ord > steps[s].ord}
      IN IF later # {}
         THEN /\ res[t].kind = "StepActivated"
              /\ ~res[t].is_final
              /\ res[t].step \in later
              /\ steps[res[t].step].ord = steps[s].ord + 1
              /\ StepSeen(t, res[t].step) = "PENDING"
              /\ ReqSeen(t, r).status = "PENDING_APPROVAL"
         ELSE /\ res[t].kind = "WorkflowCompleted"
              /\ res[t].final = "APPROVED"
              /\ ReqSeen(t, r).status = "APPROVED"
              /\ ReqSeen(t, r).decided_by = steps[s].approver

C4_Count ==
  \A r \in Reqs :
    CommittedStepIds(r) # {} =>
      /\ approvals[r] <= Cardinality(CommittedStepIds(r))
      /\ (reqs[r].status = "APPROVED") <=> (approvals[r] = Cardinality(CommittedStepIds(r)))
      /\ reqs[r].status = "APPROVED" =>
           \E s \in CommittedStepIds(r) :
             /\ reqs[r].decided_by = steps[s].approver
             /\ \A x \in CommittedStepIds(r) : steps[x].ord <= steps[s].ord

C4_Live ==
  \A r \in Reqs :
    (reqs[r].status = "PENDING_APPROVAL" /\ CommittedStepIds(r) # {})
      ~> (reqs[r].status = "APPROVED")

C4_InOrderApprovalCompletes == [](C4_Results /\ C4_Count) /\ C4_Live

\* C4 witness: a workflow of two steps approved in order by its two approvers.
C4_Witness ==
  \E r \in Reqs :
    /\ reqs[r].status = "APPROVED"
    /\ Cardinality(CommittedStepIds(r)) >= 2
    /\ approvals[r] = Cardinality(CommittedStepIds(r))
    /\ \A s \in CommittedStepIds(r) : steps[s].status = "APPROVED"

\* C12: the committed status of a request only moves along
\* DRAFT -> PENDING_APPROVAL -> {APPROVED, REJECTED, WITHDRAWN}; a request
\* that is APPROVED, REJECTED, WITHDRAWN or CANCELLED keeps its status.
C12_StatusFollowsStateDiagram ==
  [][\A r \in Reqs :
       reqs'[r].status # reqs[r].status =>
         \/ reqs[r].status = "DRAFT" /\ reqs'[r].status = "PENDING_APPROVAL"
         \/ /\ reqs[r].status = "PENDING_APPROVAL"
            /\ reqs'[r].status \in {"APPROVED", "REJECTED", "WITHDRAWN"}]_vars

\* C13: once a committed step of a request is REJECTED, no step of that
\* request becomes APPROVED.
C13_NoApprovalAfterRejection ==
  [][\A s \in StepIds :
       (steps'[s].owner = "db" /\ steps'[s].status = "APPROVED"
          /\ ~(steps[s].owner = "db" /\ steps[s].status = "APPROVED")) =>
         \A x \in CommittedStepIds(steps'[s].req) : steps[x].status # "REJECTED"]_vars

\* ------------------------------------------- BalanceEngine under any use
\* BalanceEngine called directly, one call per Unit of Work, by transactions
\* that run concurrently, on requests of any total_days, starting from a
\* balance row with non-negative components and a non-negative available.
BalanceRows ==
  {b \in [opening : 0..MaxOpening, pending : 0..1, used : 0..1] : available_balance(b) >= 0}

InitBalance ==
  /\ bal \in BalanceRows
  /\ reqs = [r \in Reqs |-> ReqDefaults]
  /\ workflowActive = TRUE
  /\ steps = [s \in StepIds |-> NoStep]
  /\ audit = ZeroAudit
  /\ completed = [r \in Reqs |-> 0]
  /\ approvals = [r \in Reqs |-> 0]
  /\ submits = [r \in Reqs |-> 0]
  /\ pc = [t \in Txns |-> "idle"]
  /\ op = [t \in Txns |-> NoOp]
  /\ loc = [t \in Txns |-> NoLoc]
  /\ wstep = [t \in Txns |-> [s \in StepIds |-> NoWrite]]
  /\ wreq = [t \in Txns |-> [r \in Reqs |-> NoReqWrite]]
  /\ waudit = [t \in Txns |-> ZeroAudit]
  /\ res = [t \in Txns |-> NoRes]
  /\ wbal = [t \in Txns |-> NoBalWrite]
  /\ bcall = [t \in Txns |-> NoCall]
  /\ ledger = NewLedger(bal)
  /\ uow = NewUow
  /\ manager_id = 1
  /\ repo = NewRepo
  /\ creation = NewCreation
  /\ pol = NewPol
  /\ AuxNew

\* a call may start while fewer than MaxRacingOps updates have committed
Any_on_submit(t) == ledger.n < MaxRacingOps /\ on_submit_load(t)

Any_on_approve(t) == ledger.n < MaxRacingOps /\ on_approve_load(t)

Any_on_reject(t) == ledger.n < MaxRacingOps /\ on_reject_load(t)

Any_on_withdraw(t) == ledger.n < MaxRacingOps /\ on_withdraw_load(t)

NextBalance ==
  \E t \in Txns :
    \/ Any_on_submit(t)
    \/ on_submit_update(t)
    \/ Any_on_approve(t)
    \/ on_approve_update(t)
    \/ Any_on_reject(t)
    \/ on_reject_update(t)
    \/ Any_on_withdraw(t)
    \/ on_withdraw_update(t)
    \/ Commit(t)
    \/ Rollback(t)
    \/ Fail(t)

SpecBalance == InitBalance /\ [][NextBalance]_vars

\* --------------------------------- reservations settled one after another
\* The calls the leave workflow makes when it runs one operation at a time:
\* on_submit for a request with no reservation outstanding, and later one of
\* on_approve, on_reject, on_withdraw for a request whose reservation is
\* outstanding, always with the balance row of the period present.
Reserve_on_submit(t) ==
  /\ Quiet(t)
  /\ on_submit_load(t)
  /\ bcall'[t].q \notin ledger.open

Settle_on_approve(t) ==
  /\ Quiet(t)
  /\ on_approve_load(t)
  /\ bcall'[t].q \in ledger.open
  /\ bcall'[t].found

Settle_on_reject(t) ==
  /\ Quiet(t)
  /\ on_reject_load(t)
  /\ bcall'[t].q \in ledger.open
  /\ bcall'[t].found

Settle_on_withdraw(t) ==
  /\ Quiet(t)
  /\ on_withdraw_load(t)
  /\ bcall'[t].q \in ledger.open
  /\ bcall'[t].found

NextReservations ==
  \E t \in Txns :
    \/ Reserve_on_submit(t)
    \/ on_submit_update(t)
    \/ Settle_on_approve(t)
    \/ on_approve_update(t)
    \/ Settle_on_reject(t)
    \/ on_reject_update(t)
    \/ Settle_on_withdraw(t)
    \/ on_withdraw_update(t)
    \/ Commit(t)
    \/ Rollback(t)

SpecReservations == InitBalance /\ [][NextReservations]_vars

\* ------------------------------------------------------ UnitOfWork calls
\* One UnitOfWork object and its caller: explicit begin / commit / rollback
\* calls, and the with-statement. The transaction's commit() and rollback()
\* may raise (ok = FALSE), and session.is_active is whatever the session
\* reports when __exit__ reads it.
nonuow == <<dbvars, pc, op, loc, wstep, wreq, waudit, res, wbal, bcall, ledger, morevars>>

\* UnitOfWork.begin
begin(u) ==
  IF ~u.transaction
  THEN [u EXCEPT !.transaction = TRUE, !.begin_calls = @ + 1]
  ELSE u

\* UnitOfWork.commit reaches self._transaction.commit()
commit_calls_through(u) == ~u.completed /\ u.transaction

\* UnitOfWork.commit, the transaction's commit() returning (ok) or raising
commit(u, ok) ==
  IF u.completed THEN u
  ELSE IF u.transaction
       THEN [u EXCEPT !.commit_calls = @ + 1,
                      !.committed = IF ok THEN @ + 1 ELSE @,
                      !.completed = ok]
       ELSE u

\* a rollback that does not look at _completed
rollback_Unguarded(u, ok) ==
  IF u.transaction
  THEN [u EXCEPT !.rollback_calls = @ + 1,
                 !.rolled_back = IF ok THEN @ + 1 ELSE @,
                 !.completed = @ \/ ok]
  ELSE u

\* UnitOfWork.rollback, the transaction's rollback() returning (ok) or raising
rollback(u, ok) ==
  IF u.completed THEN u
  ELSE IF u.transaction
       THEN [u EXCEPT !.rollback_calls = @ + 1,
                      !.rolled_back = IF ok THEN @ + 1 ELSE @,
                      !.completed = ok]
       ELSE u

\* the caller calls begin()
call_begin ==
  /\ Len(uow.log) < MaxCalls
  /\ uow' = [begin(uow) EXCEPT !.log = Append(@, "begin")]
  /\ UNCHANGED nonuow

\* the caller calls commit()
call_commit ==
  \E ok \in BOOLEAN :
    /\ Len(uow.log) < MaxCalls
    /\ uow' = [commit(uow, ok) EXCEPT !.log = Append(@, "commit")]
    /\ UNCHANGED nonuow

\* the caller calls rollback()
call_rollback ==
  \E ok \in BOOLEAN :
    /\ Len(uow.log) < MaxCalls
    /\ uow' = [rollback(uow, ok) EXCEPT !.log = Append(@, "rollback")]
    /\ UNCHANGED nonuow

\* __enter__
uow_enter ==
  /\ uow.at = "new"
  /\ uow' = [begin(uow) EXCEPT !.at = "body"]
  /\ UNCHANGED nonuow

\* an __exit__ that commits whether or not the body raised
uow_exit_AlwaysCommit ==
  \E exc \in BOOLEAN, ok \in BOOLEAN, active \in BOOLEAN :
    /\ uow.at = "body"
    /\ LET u1 == commit(uow, ok)
           raised == commit_calls_through(uow) /\ ~ok
       IN uow' = [u1 EXCEPT !.at = "left",
                            !.body = IF exc THEN "raised" ELSE "ok",
                            !.exit = IF raised THEN "commit_exc"
                                     ELSE IF exc THEN "body_exc" ELSE "returned",
                            !.exit_commits = u1.commit_calls - uow.commit_calls,
                            !.exit_rollbacks = u1.rollback_calls - uow.rollback_calls,
                            !.active = active,
                            !.closed = @ \/ active]
    /\ UNCHANGED nonuow

\* __exit__: the body ended normally or with an exception (exc); commit or
\* rollback, which may raise; finally close the session if it is active
uow_exit ==
  \E exc \in BOOLEAN, ok \in BOOLEAN, active \in BOOLEAN :
    /\ uow.at = "body"
    /\ LET u1 == IF exc THEN rollback(uow, ok) ELSE commit(uow, ok)
           raised == commit_calls_through(uow) /\ ~ok
       IN uow' = [u1 EXCEPT !.at = "left",
                            !.body = IF exc THEN "raised" ELSE "ok",
                            !.exit = IF raised
                                     THEN (IF exc THEN "rollback_exc" ELSE "commit_exc")
                                     ELSE IF exc THEN "body_exc" ELSE "returned",
                            !.exit_commits = u1.commit_calls - uow.commit_calls,
                            !.exit_rollbacks = u1.rollback_calls - uow.rollback_calls,
                            !.active = active,
                            !.closed = @ \/ active]
    /\ UNCHANGED nonuow

InitUoW ==
  /\ InitBalance
  /\ bal = [opening |-> 0, pending |-> 0, used |-> 0]

NextUoW ==
  \/ call_begin
  \/ call_commit
  \/ call_rollback
  \/ uow_enter
  \/ uow_exit

SpecUoW == InitUoW /\ [][NextUoW]_vars

\* ------------------------------------------------ repositories and audit
\* One repository and its AuditRepository on one session: add, update_fields
\* and soft_delete calls on rows with a status column, then commit or rollback.
nonrepo == <<dbvars, pc, op, loc, wstep, wreq, waudit, res, wbal, bcall, ledger, uow, creation, pol, auxvars>>

\* utils.model_to_dict: the mapped column attributes of the row e as JSON-safe
\* values, each written as its JSON text
model_to_dict(e, row) ==
  [id |-> e, status |-> row.status, is_deleted |-> IF row.is_deleted THEN "true" ELSE "false"]

\* dict.get
Get(d, k) == IF k \in DOMAIN d THEN d[k] ELSE NoneVal

\* Python's != on JSON-safe values: a float NaN is unequal to every value,
\* itself included
NotEqual(x, y) == x # y \/ x = NaN

\* utils.dict_diff
dict_diff(old, new) ==
  IF old = NoDict \/ new = NoDict THEN NoDict
  ELSE LET changed == {k \in DOMAIN old \cup DOMAIN new : NotEqual(Get(old, k), Get(new, k))}
       IN IF changed = {} THEN NoDict
          ELSE [k \in changed |-> [old |-> Get(old, k), new |-> Get(new, k)]]

\* an _emit_audit of a repository built without an AuditRepository
emit_audit_Unwired(r, action, e, old, new, changes) == r.log

\* BaseRepository._emit_audit and AuditRepository.append: the session's audit
\* events after the call
emit_audit(r, action, e, old, new, changes) ==
  IF ~r.wired THEN r.log
  ELSE IF e = NoneVal THEN r.log
  ELSE Append(r.log, [action |-> action, entity_type |-> "LeaveRequest", entity_id |-> e,
                      old_values |-> old, new_values |-> new, changes |-> changes])

\* repository calls made so far and not rolled back
RepoCalls == Len(repo.calls) + Len(repo.ccalls)

\* BaseRepository.add: INSERT (flush), then the CREATE event
repo_add ==
  \E e \in Ents, v \in StatusVals :
    /\ RepoCalls < MaxRepoCalls
    /\ repo.rows[e] = Absent
    /\ LET row == [status |-> v, is_deleted |-> FALSE]
       IN repo' = [repo EXCEPT
                     !.rows[e] = row,
                     !.calls = Append(@, [op |-> "add", ent |-> e, after |-> row]),
                     !.log = emit_audit(repo, "CREATE", e, NoDict, model_to_dict(e, row), NoDict)]
    /\ UNCHANGED nonrepo

\* BaseRepository.update_fields: setattr, UPDATE (flush), then the UPDATE event
repo_update_fields ==
  \E e \in Ents, v \in StatusVals :
    /\ RepoCalls < MaxRepoCalls
    /\ repo.rows[e] # Absent
    /\ LET old_values == model_to_dict(e, repo.rows[e])
           row == [repo.rows[e] EXCEPT !.status = v]
           new_values == model_to_dict(e, row)
       IN repo' = [repo EXCEPT
                     !.rows[e] = row,
                     !.calls = Append(@, [op |-> "update_fields", ent |-> e, after |-> row]),
                     !.log = emit_audit(repo, "UPDATE", e, old_values, new_values,
                                        dict_diff(old_values, new_values))]
    /\ UNCHANGED nonrepo

\* BaseRepository.soft_delete: set is_deleted, UPDATE (flush), then the DELETE event
repo_soft_delete ==
  \E e \in Ents :
    /\ RepoCalls < MaxRepoCalls
    /\ repo.rows[e] # Absent
    /\ LET old_values == model_to_dict(e, repo.rows[e])
           row == [repo.rows[e] EXCEPT !.is_deleted = TRUE]
           new_values == model_to_dict(e, row)
       IN repo' = [repo EXCEPT
                     !.rows[e] = row,
                     !.calls = Append(@, [op |-> "soft_delete", ent |-> e, after |-> row]),
                     !.log = emit_audit(repo, "DELETE", e, old_values, new_values,
                                        dict_diff(old_values, new_values))]
    /\ UNCHANGED nonrepo

\* the Unit of Work commits: rows and audit events become durable together
repo_commit ==
  /\ repo.calls # <<>>
  /\ repo' = [repo EXCEPT !.crows = repo.rows,
                          !.clog = @ \o repo.log, !.ccalls = @ \o repo.calls,
                          !.log = <<>>, !.calls = <<>>]
  /\ UNCHANGED nonrepo

\* the Unit of Work rolls back: rows and audit events of the transaction go
repo_rollback ==
  /\ repo.calls # <<>>
  /\ repo' = [repo EXCEPT !.rows = repo.crows, !.log = <<>>, !.calls = <<>>]
  /\ UNCHANGED nonrepo

\* every variable but repo, creation and pol, with nothing in flight
Untouched ==
  /\ bal = [opening |-> 0, pending |-> 0, used |-> 0]
  /\ reqs = [r \in Reqs |-> ReqDefaults]
  /\ workflowActive = TRUE
  /\ steps = [s \in StepIds |-> NoStep]
  /\ audit = ZeroAudit
  /\ completed = [r \in Reqs |-> 0]
  /\ approvals = [r \in Reqs |-> 0]
  /\ submits = [r \in Reqs |-> 0]
  /\ pc = [t \in Txns |-> "idle"]
  /\ op = [t \in Txns |-> NoOp]
  /\ loc = [t \in Txns |-> NoLoc]
  /\ wstep = [t \in Txns |-> [s \in StepIds |-> NoWrite]]
  /\ wreq = [t \in Txns |-> [r \in Reqs |-> NoReqWrite]]
  /\ waudit = [t \in Txns |-> ZeroAudit]
  /\ res = [t \in Txns |-> NoRes]
  /\ wbal = [t \in Txns |-> NoBalWrite]
  /\ bcall = [t \in Txns |-> NoCall]
  /\ ledger = NewLedger(bal)
  /\ uow = NewUow
  /\ manager_id = 1

InitAudit ==
  /\ Untouched
  /\ repo = NewRepo
  /\ creation = NewCreation
  /\ pol = NewPol
  /\ AuxNew

NextAudit ==
  \/ repo_add
  \/ repo_update_fields
  \/ repo_soft_delete
  \/ repo_commit
  \/ repo_rollback

SpecAudit == InitAudit /\ [][NextAudit]_vars

\* the audit action a repository call is recorded under
ActionOf(o) == CASE o = "add" -> "CREATE" [] o = "update_fields" -> "UPDATE" [] OTHER -> "DELETE"

C11_NoLostBalanceUpdate ==
  bal.pending = ledger.pending /\ bal.used = ledger.used

\* in a scope with no explicit call: one transaction begun on entry, nothing
\* committed or rolled back before exit, and on exit exactly one call, commit
\* when the body ended normally and rollback when it raised
C14_ExactlyOne ==
  Len(uow.log) = 0 =>
    /\ uow.at = "new" => uow.begin_calls = 0
    /\ uow.at \in {"body", "left"} => uow.begin_calls = 1
    /\ uow.at \in {"new", "body"} => uow.commit_calls = 0 /\ uow.rollback_calls = 0
    /\ uow.at = "left" =>
         /\ uow.commit_calls = uow.exit_commits
         /\ uow.rollback_calls = uow.exit_rollbacks
         /\ uow.exit_commits + uow.exit_rollbacks = 1
         /\ uow.body = "ok" <=> uow.exit_commits = 1
         /\ uow.body = "raised" <=> uow.exit_rollbacks = 1
         /\ uow.body = "ok" => uow.exit \in {"returned", "commit_exc"}

C15_SessionClosedOnExit ==
  uow.at = "left" => uow.closed

\* C16: session.begin() is called at most once per UnitOfWork; _completed is
\* set by exactly one commit or rollback that returned; and once it is set no
\* call reaches the transaction's commit() or rollback() again.
C16_Idempotent ==
  /\ [](uow.begin_calls <= 1)
  /\ [](uow.completed => uow.committed + uow.rolled_back = 1)
  /\ [][uow.completed =>
          /\ uow'.completed
          /\ uow'.begin_calls = uow.begin_calls
          /\ uow'.commit_calls = uow.commit_calls
          /\ uow'.rollback_calls = uow.rollback_calls
          /\ uow'.committed = uow.committed
          /\ uow'.rolled_back = uow.rolled_back]_vars

\* C16 witness: begin called twice, then a commit that returned, then a
\* rollback: one transaction, committed once, never rolled back.
C16_Witness ==
  /\ uow.log = <<"begin", "begin", "commit", "rollback">>
  /\ uow.begin_calls = 1
  /\ uow.commit_calls = 1
  /\ uow.committed = 1
  /\ uow.rollback_calls = 0

\* C17: when every reservation made by on_submit has been settled by one
\* on_approve, on_reject or on_withdraw, pending is back at its initial value
\* and available is the initial available minus the increase of used.
C17_BalanceConservation ==
  (ledger.open = {} /\ \A t \in Txns : pc[t] = "idle") =>
    /\ bal.pending = ledger.pending0
    /\ available_balance(bal) =
         (bal.opening - ledger.used0 - ledger.pending0) - (bal.used - ledger.used0)

\* C18: used, pending and available of the committed balance row stay >= 0.
C18_BalanceNonNegative ==
  bal.used >= 0 /\ bal.pending >= 0 /\ available_balance(bal) >= 0

\* C19: no committed transition lowers used, and only a committed on_approve
\* changes it.
C19_UsedMonotonic ==
  [][/\ bal'.used >= bal.used
     /\ bal'.used # bal.used =>
          \E t \in Txns : pc[t] = "returned" /\ bcall[t].kind = "on_approve"]_vars

\* C20: an on_submit that returns has found the row with available >=
\* total_days and has made exactly one update, of pending alone, to the
\* pending it read plus total_days; an on_submit that raises
\* InsufficientBalanceException has found no row or available < total_days,
\* carries available (0 without a row) and total_days, and has made no update.
C20_OnSubmitContract ==
  \A t \in Txns :
    bcall[t].kind = "on_submit" =>
      /\ pc[t] = "returned" =>
           /\ bcall[t].found
           /\ available_balance(bcall[t].row) >= total_days[bcall[t].q]
           /\ wbal[t] = [cols |-> {"pending"},
                         pending |-> bcall[t].row.pending + total_days[bcall[t].q],
                         used |-> 0]
           /\ waudit[t]["LeaveBalance"] = 1
      /\ (pc[t] = "failed" /\ res[t].kind = "InsufficientBalanceException") =>
           /\ ~bcall[t].found \/ available_balance(bcall[t].row) < total_days[bcall[t].q]
           /\ bcall[t].requested = total_days[bcall[t].q]
           /\ bcall[t].available = IF bcall[t].found THEN available_balance(bcall[t].row) ELSE 0
           /\ wbal[t] = NoBalWrite
           /\ waudit[t] = ZeroAudit
      /\ (bcall[t].found /\ available_balance(bcall[t].row) >= total_days[bcall[t].q]) =>
           res[t].kind # "InsufficientBalanceException"

\* C20 witness: one on_submit has reserved its days while another one, for a
\* request asking more than is available, has raised.
C20_Witness ==
  \E t \in Txns, u \in Txns :
    /\ bcall[t].kind = "on_submit" /\ pc[t] = "returned"
    /\ bcall[u].kind = "on_submit" /\ pc[u] = "failed"
    /\ res[u].kind = "InsufficientBalanceException"
    /\ bcall[u].found

\* C21: an on_approve that returns has found the row with pending >=
\* total_days and has made exactly one update, to the pending it read minus
\* total_days and the used it read plus total_days, which leaves available as
\* it was; an on_approve that found no row or pending < total_days has raised
\* and made no update.
C21_OnApproveContract ==
  \A t \in Txns :
    bcall[t].kind = "on_approve" =>
      /\ pc[t] = "returned" =>
           /\ bcall[t].found
           /\ bcall[t].row.pending >= total_days[bcall[t].q]
           /\ wbal[t] = [cols |-> {"pending", "used"},
                         pending |-> bcall[t].row.pending - total_days[bcall[t].q],
                         used |-> bcall[t].row.used + total_days[bcall[t].q]]
           /\ waudit[t]["LeaveBalance"] = 1
           /\ available_balance(ApplyBalWrite(bcall[t].row, wbal[t])) = available_balance(bcall[t].row)
           /\ ApplyBalWrite(bcall[t].row, wbal[t]).opening = bcall[t].row.opening
      /\ (~bcall[t].found \/ bcall[t].row.pending < total_days[bcall[t].q]) =>
           /\ pc[t] = "failed"
           /\ res[t].kind = "RuntimeError"
           /\ wbal[t] = NoBalWrite
           /\ waudit[t] = ZeroAudit
      /\ (pc[t] = "failed" /\ res[t].kind = "RuntimeError") =>
           ~bcall[t].found \/ bcall[t].row.pending < total_days[bcall[t].q]

\* C21 witness: one on_approve has moved its days from pending to used while
\* another one, for a request with more days than are pending, has raised.
C21_Witness ==
  \E t \in Txns, u \in Txns :
    /\ bcall[t].kind = "on_approve" /\ pc[t] = "returned"
    /\ bcall[t].row.used + total_days[bcall[t].q] > bcall[t].row.used
    /\ bcall[u].kind = "on_approve" /\ pc[u] = "failed"
    /\ res[u].kind = "RuntimeError"
    /\ bcall[u].found

\* C22: when an on_reject or on_withdraw commits directly after the on_submit
\* of the same request, the balance row is again what it was before that
\* on_submit (pending lower by total_days, nothing else changed); when it
\* found no balance row, it commits without any update.
C22_ReleaseRoundTrip ==
  [][\A t \in Txns :
       (bcall[t].kind \in {"on_reject", "on_withdraw"}
          /\ pc[t] = "returned" /\ pc'[t] = "idle") =>
         /\ (bcall[t].found /\ ledger.last = bcall[t].q) =>
              bal' = [bal EXCEPT !.pending = @ - total_days[bcall[t].q]]
         /\ ~bcall[t].found => bal' = bal /\ audit' = audit]_vars


\* ------------------------------------------------ creating leave requests
noncreation == <<dbvars, pc, op, loc, wstep, wreq, waudit, res, wbal, bcall, ledger, uow, repo, pol, auxvars>>

\* the WHERE clause of LeaveRequestRepository.find_overlaps on one row
OverlapClause(row, user_id, start, end) ==
  /\ row.user_id = user_id
  /\ \/ row.start_date <= start /\ row.end_date >= start
     \/ row.start_date <= end /\ row.end_date >= end
     \/ row.start_date >= start /\ row.end_date <= end

\* LeaveRequestRepository.find_overlaps: the rows selected
find_overlaps(rows, user_id, start, end) ==
  {i \in 1..Len(rows) : OverlapClause(rows[i], user_id, start, end)}

\* LeaveEngine.create_leave_request; found is whether the user, the leave type
\* and an eligible policy were found
create_leave_request ==
  \E user_id \in Applicants, start \in Days, end \in Days, td \in CreateTotalDays, found \in BOOLEAN :
    /\ Len(creation.rows) < MaxRequests
    /\ LET overlaps == find_overlaps(creation.rows, user_id, start, end)
           call == [user_id |-> user_id, start_date |-> start, end_date |-> end, total_days |-> td]
           id == Len(creation.rows) + 1
           req == [id |-> id, user_id |-> user_id, start_date |-> start, end_date |-> end,
                   total_days |-> td, status |-> "DRAFT"]
       IN IF overlaps # {}
            THEN creation' = [creation EXCEPT !.call = call, !.overlaps = overlaps,
                                              !.result = "LeaveOverlapException"]
          ELSE IF ~found
            THEN creation' = [creation EXCEPT !.call = call, !.overlaps = {},
                                              !.result = "NotFound"]
          ELSE creation' = [creation EXCEPT !.call = call, !.overlaps = {},
                                            !.result = "created",
                                            !.rows = Append(@, req),
                                            !.dates = @ \cup {<<id, d>> : d \in start..end}]
    /\ UNCHANGED noncreation

\* the later life of a persisted request: submit, then approve, reject or
\* withdraw
request_transition ==
  \E i \in 1..Len(creation.rows), s \in {"PENDING_APPROVAL", "APPROVED", "REJECTED", "WITHDRAWN"} :
    /\ \/ creation.rows[i].status = "DRAFT" /\ s = "PENDING_APPROVAL"
       \/ creation.rows[i].status = "PENDING_APPROVAL" /\ s # "PENDING_APPROVAL"
    /\ creation' = [creation EXCEPT !.rows[i].status = s, !.call = NoCreate,
                                    !.result = "none", !.overlaps = {}]
    /\ UNCHANGED noncreation

\* an administrator changes a user's account status
user_status_change ==
  \E u \in Applicants, s \in UserStatuses :
    /\ creation.user_status[u] # s
    /\ creation' = [creation EXCEPT !.user_status[u] = s]
    /\ UNCHANGED noncreation

InitCreate ==
  /\ Untouched
  /\ repo = NewRepo
  /\ creation = NewCreation
  /\ pol = NewPol
  /\ AuxNew

NextCreate ==
  \/ create_leave_request
  \/ request_transition
  \/ user_status_change

SpecCreate == InitCreate /\ [][NextCreate]_vars

\* the days of the window [start, end], both ends inclusive
Window(start, end) == {d \in Days : start <= d /\ d <= end}

\* the rows that were there when the latest create_leave_request ran
Existing ==
  IF creation.result = "created" THEN 1..(Len(creation.rows) - 1) ELSE 1..Len(creation.rows)

\* C24: a create_leave_request whose window shares a day with an existing
\* request of the same user raises LeaveOverlapException and persists nothing,
\* the day rows are those of the persisted requests, and on every existing
\* request of the user the three-branch predicate agrees with
\* existing.start_date <= end_date and existing.end_date >= start_date.
C24_NoOverlapAdmission ==
  creation.result # "none" =>
    LET c == creation.call
    IN /\ \A i \in Existing :
            (/\ creation.rows[i].user_id = c.user_id
             /\ Window(creation.rows[i].start_date, creation.rows[i].end_date)
                  \cap Window(c.start_date, c.end_date) # {})
              => creation.result = "LeaveOverlapException"
       /\ creation.dates = UNION {{<<i, d>> : d \in Window(creation.rows[i].start_date, creation.rows[i].end_date)} :
                                    i \in 1..Len(creation.rows)}
       /\ \A i \in Existing :
            creation.rows[i].user_id = c.user_id =>
              (OverlapClause(creation.rows[i], c.user_id, c.start_date, c.end_date)
                 <=> (/\ creation.rows[i].start_date <= c.end_date
                      /\ creation.rows[i].end_date >= c.start_date))

\* C25: a create_leave_request that raises LeaveOverlapException has found an
\* overlapping request of the user that is not REJECTED, WITHDRAWN or CANCELLED.
C25_TerminalNeverBlocks ==
  creation.result = "LeaveOverlapException" =>
    \E i \in creation.overlaps :
      creation.rows[i].status \notin {"REJECTED", "WITHDRAWN", "CANCELLED"}

\* C26: every persisted leave request has end_date >= start_date and
\* total_days > 0.
C26_InputValidated ==
  \A i \in 1..Len(creation.rows) :
    /\ creation.rows[i].end_date >= creation.rows[i].start_date
    /\ creation.rows[i].total_days > 0


C28_OnlyApproverDecides ==
  /\ [](\A t \in Txns, s \in StepIds, a \in Users :
          (Visible(t, s) /\ steps[s].approver # a) =>
            DecisionCheck(t, s, a) = "ApprovalException")
  /\ [][/\ \A t \in Txns, s \in StepIds :
             (wstep[t][s] \notin {"APPROVED", "REJECTED"} /\ wstep'[t][s] \in {"APPROVED", "REJECTED"}) =>
               /\ op[t].kind \in {"approve", "reject"}
               /\ op[t].step = s
               /\ op[t].actor = steps[s].approver
        /\ \A s \in StepIds :
             (steps[s].status \notin {"APPROVED", "REJECTED"} /\ steps'[s].status \in {"APPROVED", "REJECTED"}) =>
               \E t \in Txns : /\ wstep[t][s] = steps'[s].status
                               /\ op[t].actor = steps[s].approver
        /\ \A t \in Txns :
             (pc[t] = "idle" /\ op'[t].kind \in {"approve", "reject"}) =>
               op'[t].actor = steps[op'[t].step].approver
        /\ \A t \in Txns :
             (pc[t] = "idle" /\ pc'[t] = "failed") =>
               UNCHANGED <<dbvars, wstep, wreq, waudit>>]_vars

\* C28 witness: a committed step decided by its approver while another
\* handler's call has raised ApprovalException.
C28_Witness ==
  /\ \E s \in StepIds : steps[s].status \in {"APPROVED", "REJECTED"} /\ steps[s].owner = "db"
  /\ \E t \in Txns : pc[t] = "failed" /\ res[t].kind = "ApprovalException"


\* ---------------------------------------------------------- PolicyEngine
nonpol == <<dbvars, pc, op, loc, wstep, wreq, waudit, res, wbal, bcall, ledger, uow, repo, creation, auxvars>>

\* LeavePolicyRepository.get_active_for_leave_type: the rows selected
get_active_for_leave_type(policies, organization_id, leave_type_id) ==
  {p \in PolIds : /\ policies[p].organization_id = organization_id
                  /\ policies[p].leave_type_id = leave_type_id
                  /\ policies[p].is_active}

\* the rows that ORDER BY effective_from DESC can put first
FirstRows(policies, rows) ==
  {p \in rows : \A q \in rows : policies[q].effective_from <= policies[p].effective_from}

\* PolicyEngine.resolve_policy_for_user
resolve_policy_for_user ==
  /\ pol.called = "none"
  /\ LET rows == get_active_for_leave_type(pol.policies, pol.user.organization_id, pol.leave_type_id)
     IN IF rows = {}
        THEN pol' = [pol EXCEPT !.called = "resolve_policy_for_user",
                                !.result = "PolicyNotFoundException"]
        ELSE \E chosen \in FirstRows(pol.policies, rows) :
               pol' = [pol EXCEPT !.called = "resolve_policy_for_user",
                                  !.result = "PolicyResolution", !.chosen = chosen]
  /\ UNCHANGED nonpol

\* timedelta.days of later - earlier: whole days, rounded down
DaysBetween(earlier, later) == (later - earlier) \div TicksPerDay

\* an eligibility check whose tenure must exceed the required days
assert_eligible_Exceed(user, policy, on_datetime) ==
  IF policy.eligibility_type = "after_probation"
    THEN IF user.probation_end_date = None THEN "EligibilityException"
         ELSE IF on_datetime < user.probation_end_date THEN "EligibilityException"
         ELSE "passed"
  ELSE IF policy.eligibility_type = "after_tenure"
    THEN IF user.hire_date = None THEN "EligibilityException"
         ELSE LET tenure_days == DaysBetween(user.hire_date, on_datetime)
                  required == IF policy.eligibility_tenure_days = None THEN 0
                              ELSE policy.eligibility_tenure_days
              IN IF tenure_days <= required THEN "EligibilityException" ELSE "passed"
  ELSE "passed"

\* PolicyEngine.assert_eligible: "passed" or the exception raised
assert_eligible(user, policy, on_datetime) ==
  IF policy.eligibility_type = "after_probation"
    THEN IF user.probation_end_date = None THEN "EligibilityException"
         ELSE IF on_datetime < user.probation_end_date THEN "EligibilityException"
         ELSE "passed"
  ELSE IF policy.eligibility_type = "after_tenure"
    THEN IF user.hire_date = None THEN "EligibilityException"
         ELSE LET tenure_days == DaysBetween(user.hire_date, on_datetime)
                  required == IF policy.eligibility_tenure_days = None THEN 0
                              ELSE policy.eligibility_tenure_days
              IN IF tenure_days < required THEN "EligibilityException" ELSE "passed"
  ELSE "passed"

\* a call of assert_eligible
call_assert_eligible ==
  /\ pol.called = "none"
  /\ pol' = [pol EXCEPT !.called = "assert_eligible",
                        !.result = assert_eligible(pol.user, pol.policy, pol.on_datetime)]
  /\ UNCHANGED nonpol

\* the policy tables, users and times the two operations are applied to
PolicyRows ==
  [organization_id : Orgs, leave_type_id : LeaveTypes, is_active : BOOLEAN,
   effective_from : Times, effective_to : Times \cup {None}]

ResolveInputs ==
  {[NewPol EXCEPT !.policies = ps, !.on_datetime = at] :
     ps \in [PolIds -> PolicyRows], at \in Times}

EligibilityInputs ==
  {[NewPol EXCEPT !.user.hire_date = h, !.user.probation_end_date = pe,
                  !.policy = [eligibility_type |-> e, eligibility_tenure_days |-> d],
                  !.on_datetime = at] :
     h \in Times \cup {None}, pe \in Times \cup {None},
     e \in EligibilityTypes, d \in (0..(MaxTime \div TicksPerDay + 1)) \cup {None}, at \in Times}

InitPolicy ==
  /\ Untouched
  /\ repo = NewRepo
  /\ creation = NewCreation
  /\ pol \in ResolveInputs \cup EligibilityInputs
  /\ AuxNew

NextPolicy ==
  \/ resolve_policy_for_user
  \/ call_assert_eligible

SpecPolicy == InitPolicy /\ [][NextPolicy]_vars

\* the active policies of the user's organization and leave type whose
\* effective window covers on_datetime
Covering ==
  {p \in PolIds : /\ pol.policies[p].organization_id = pol.user.organization_id
                  /\ pol.policies[p].leave_type_id = pol.leave_type_id
                  /\ pol.policies[p].is_active
                  /\ pol.policies[p].effective_from <= pol.on_datetime
                  /\ \/ pol.policies[p].effective_to = None
                     \/ pol.on_datetime <= pol.policies[p].effective_to}

\* C29: resolve_policy_for_user returns a policy whose window covers the
\* time asked about, with the latest effective_from among those, and raises
\* PolicyNotFoundException exactly when no such policy exists.
C29_ResolveCoveringPolicy ==
  pol.called = "resolve_policy_for_user" =>
    /\ pol.result = "PolicyNotFoundException" <=> Covering = {}
    /\ pol.result = "PolicyResolution" =>
         /\ pol.chosen \in Covering
         /\ \A q \in Covering :
              pol.policies[q].effective_from <= pol.policies[pol.chosen].effective_from

\* C30: assert_eligible passes an IMMEDIATE policy; under AFTER_PROBATION it
\* raises exactly when probation_end_date is unset or later than the time;
\* under AFTER_TENURE exactly when hire_date is unset or the whole days since
\* hire_date are fewer than eligibility_tenure_days (none required when
\* unset); and the call changes nothing but its own outcome.
C30_EligibilityDecision ==
  /\ [](pol.called = "assert_eligible" =>
          LET raised == pol.result = "EligibilityException"
              u == pol.user
              at == pol.on_datetime
              required == IF pol.policy.eligibility_tenure_days = None THEN 0
                          ELSE pol.policy.eligibility_tenure_days
          IN /\ pol.result \in {"passed", "EligibilityException"}
             /\ pol.policy.eligibility_type = "immediate" => ~raised
             /\ pol.policy.eligibility_type = "after_probation" =>
                  (raised <=> (u.probation_end_date = None \/ at < u.probation_end_date))
             /\ pol.policy.eligibility_type = "after_tenure" =>
                  (raised <=> (\/ u.hire_date = None
                               \/ \E n \in (0 - MaxTime)..MaxTime :
                                    /\ n * TicksPerDay <= at - u.hire_date
                                    /\ at - u.hire_date < (n + 1) * TicksPerDay
                                    /\ n < required)))
  /\ [][pol'.called = "assert_eligible" =>
          /\ UNCHANGED nonpol
          /\ pol' = [pol EXCEPT !.called = pol'.called, !.result = pol'.result]]_vars

\* C30 witness: a user whose tenure in whole days equals the required days,
\* half a day into the following day, has passed.
C30_Witness ==
  /\ pol.called = "assert_eligible"
  /\ pol.policy.eligibility_type = "after_tenure"
  /\ pol.policy.eligibility_tenure_days = 1
  /\ pol.user.hire_date = 0
  /\ pol.on_datetime = 3
  /\ pol.result = "passed"


\* ------------------------------------------------------- balance report
nonreport == <<dbvars, pc, op, loc, wstep, wreq, waudit, res, wbal, bcall, ledger, uow, repo, creation, pol, listing, diffs, owned, manager_id>>

\* LeaveBalance.available_balance, on all eight components
AvailableBalance(row) ==
  row.opening_balance + row.accrued + row.carried_forward + row.adjusted
    - row.used - row.pending - row.encashed - row.expired

\* the "available" entry that LeaveEngine.get_leave_balance computes for a row
ReportedAvailable(row) ==
  row.opening_balance + row.accrued + row.adjusted + row.carried_forward
    - row.used - row.pending

\* LeaveEngine.get_leave_balance on the user's balance row
get_leave_balance ==
  /\ ~report.called
  /\ report' = [report EXCEPT !.called = TRUE, !.available = ReportedAvailable(report.row)]
  /\ UNCHANGED nonreport

\* the balance rows get_leave_balance is applied to
InitReport ==
  /\ Untouched
  /\ repo = NewRepo
  /\ creation = NewCreation
  /\ pol = NewPol
  /\ report \in {[NewReport EXCEPT !.row = r] : r \in [Components -> 0..MaxComponent]}
  /\ listing = NewListing
  /\ diffs = NewDiffs
  /\ owned = NewOwned

NextReport == get_leave_balance

SpecReport == InitReport /\ [][NextReport]_vars

\* C31: the available that get_leave_balance reports for a row is the row's
\* derived available, opening + accrued + carried_forward + adjusted - used -
\* pending - encashed - expired.
C31_ReportedAvailable ==
  report.called => report.available = AvailableBalance(report.row)


\* ------------------------------------------------------- list operations
nonlisting == <<dbvars, pc, op, loc, wstep, wreq, waudit, res, wbal, bcall, ledger, uow, repo, creation, pol, report, diffs, owned, manager_id>>

Min(a, b) == IF a <= b THEN a ELSE b

\* the number of rows SELECT ... OFFSET offset LIMIT limit returns from n
\* matching rows
Select(n, offset, limit) == Min(IF n > offset THEN n - offset ELSE 0, limit)

\* BaseRepository.list
BaseRepository_list ==
  /\ listing.op = "none"
  /\ LET effective_limit == Min(listing.limit, MAX_QUERY_LIMIT)
     IN listing' = [listing EXCEPT !.op = "BaseRepository.list",
                                   !.returned = Select(listing.rows, listing.offset, effective_limit)]
  /\ UNCHANGED nonlisting

\* LeaveEngine.list_leave_requests
list_leave_requests ==
  /\ listing.op = "none"
  /\ LET effective_limit == Min(listing.limit, MAX_QUERY_LIMIT)
     IN listing' = [listing EXCEPT !.op = "list_leave_requests",
                                   !.returned = Select(listing.rows, listing.offset, effective_limit)]
  /\ UNCHANGED nonlisting

\* the audit endpoint: AuditEngine.list_entity_events, AuditRepository.list_for_entity
list_for_entity ==
  /\ listing.op = "none"
  /\ listing' = [listing EXCEPT !.op = "list_for_entity",
                                !.returned = Select(listing.rows, listing.offset, listing.limit)]
  /\ UNCHANGED nonlisting

\* the tables and the caller's limit and offset
InitListing ==
  /\ Untouched
  /\ repo = NewRepo
  /\ creation = NewCreation
  /\ pol = NewPol
  /\ report = NewReport
  /\ listing \in {[NewListing EXCEPT !.rows = n, !.limit = l, !.offset = o] :
                    n \in TableSizes, l \in Limits, o \in Offsets}
  /\ diffs = NewDiffs
  /\ owned = NewOwned

NextListing ==
  \/ BaseRepository_list
  \/ list_leave_requests
  \/ list_for_entity

SpecListing == InitListing /\ [][NextListing]_vars

\* C32: a list operation returns at most MAX_QUERY_LIMIT rows whatever limit
\* the caller passes.
C32_ListsCapped ==
  listing.op # "none" => listing.returned <= MAX_QUERY_LIMIT


\* ------------------------------------------------------------ dict_diff
nondiffs == <<dbvars, pc, op, loc, wstep, wreq, waudit, res, wbal, bcall, ledger, uow, repo, creation, pol, report, listing, owned, manager_id>>

\* a call of dict_diff
call_dict_diff ==
  /\ ~diffs.called
  /\ diffs' = [diffs EXCEPT !.called = TRUE, !.result = dict_diff(diffs.old, diffs.new)]
  /\ UNCHANGED nondiffs

\* the dicts over DiffKeys, and None
Dicts == UNION {[ks -> DiffVals] : ks \in SUBSET DiffKeys} \cup {NoDict}

InitDiffs ==
  /\ Untouched
  /\ repo = NewRepo
  /\ creation = NewCreation
  /\ pol = NewPol
  /\ report = NewReport
  /\ listing = NewListing
  /\ diffs \in {[NewDiffs EXCEPT !.old = o, !.new = n] : o \in Dicts, n \in Dicts}
  /\ owned = NewOwned

NextDiffs == call_dict_diff

SpecDiffs == InitDiffs /\ [][NextDiffs]_vars

\* C33: dict_diff returns None when either argument is None, else the map
\* {k: {old, new}} over the keys of either dict whose values differ (a missing
\* key counting as None), or None when no key differs; the diff of a dict
\* with itself is None.
C33_DictDiff ==
  diffs.called =>
    LET old == diffs.old
        new == diffs.new
        differing == {k \in DOMAIN old \cup DOMAIN new : Get(old, k) # Get(new, k)}
    IN /\ (old = NoDict \/ new = NoDict) => diffs.result = NoDict
       /\ (old # NoDict /\ new # NoDict) =>
            diffs.result = IF differing = {} THEN NoDict
                           ELSE [k \in differing |-> [old |-> Get(old, k), new |-> Get(new, k)]]
       /\ old = new => diffs.result = NoDict


\* ------------------------------------------- soft delete and owned rows
nonowned == <<dbvars, pc, op, loc, wstep, wreq, waudit, res, wbal, bcall, ledger, uow, repo, creation, pol, report, listing, diffs, manager_id>>

\* BaseRepository.soft_delete on one entity: its own is_deleted is set
soft_deleted(row) == [row EXCEPT !.is_deleted = TRUE]

\* LeaveRequestRepository.soft_delete(request)
soft_delete_request ==
  /\ ~owned.request.is_deleted
  /\ owned' = [owned EXCEPT !.request = soft_deleted(@)]
  /\ UNCHANGED nonowned

\* LeaveRequestDateRepository.soft_delete(day)
soft_delete_date ==
  \E i \in OwnedIds :
    /\ owned.dates[i].present /\ ~owned.dates[i].is_deleted
    /\ owned' = [owned EXCEPT !.dates[i] = soft_deleted(@)]
    /\ UNCHANGED nonowned

\* WorkflowStepRepository.soft_delete(step)
soft_delete_step ==
  \E i \in OwnedIds :
    /\ owned.steps[i].present /\ ~owned.steps[i].is_deleted
    /\ owned' = [owned EXCEPT !.steps[i] = soft_deleted(@)]
    /\ UNCHANGED nonowned

\* WorkflowEngine.instantiate_steps adding a step row to the request
owned_add_step ==
  \E i \in OwnedIds :
    /\ ~owned.steps[i].present
    /\ owned' = [owned EXCEPT !.steps[i] = LiveRow]
    /\ UNCHANGED nonowned

\* a request as create_leave_request leaves it: its day rows, no steps
InitOwned ==
  /\ Untouched
  /\ repo = NewRepo
  /\ creation = NewCreation
  /\ pol = NewPol
  /\ report = NewReport
  /\ listing = NewListing
  /\ diffs = NewDiffs
  /\ owned \in {[NewOwned EXCEPT !.dates = d] : d \in [OwnedIds -> {NoRow, LiveRow}]}

NextOwned ==
  \/ soft_delete_request
  \/ soft_delete_date
  \/ soft_delete_step
  \/ owned_add_step

SpecOwned == InitOwned /\ [][NextOwned]_vars

\* C34: once a leave request is soft-deleted, every day row and every
\* workflow step it owns has is_deleted set.
C34_OwnedRowsDeleted ==
  owned.request.is_deleted =>
    \A i \in OwnedIds :
      /\ owned.dates[i].present => owned.dates[i].is_deleted
      /\ owned.steps[i].present => owned.steps[i].is_deleted


\* C35: a leave request is created, and a DRAFT request is moved to
\* PENDING_APPROVAL, only for a user whose status is ACTIVE.
C35_ActiveUsersOnly ==
  [][/\ Len(creation'.rows) > Len(creation.rows) =>
          creation.user_status[creation'.rows[Len(creation'.rows)].user_id] = "ACTIVE"
     /\ \A i \in 1..Len(creation.rows) :
          (creation.rows[i].status = "DRAFT" /\ creation'.rows[i].status = "PENDING_APPROVAL") =>
            creation.user_status[creation.rows[i].user_id] = "ACTIVE"]_vars


\* C36: in the committed table a leave request has decided_at set exactly
\* when its status is APPROVED or REJECTED.
C36_DecidedAtIffDecided ==
  \A r \in Reqs : reqs[r].decided_at <=> reqs[r].status \in {"APPROVED", "REJECTED"}


\* --------------------------------------------- the handlers of the API
\* The endpoints only: submit, approve, reject and withdraw, each in its Unit
\* of Work. instantiate_steps is reached through submit alone.
NextHandlers ==
  \E t \in Txns :
    \/ submit_load(t)
    \/ submit_instantiate(t)
    \/ submit_finish(t)
    \/ approve_load(t)
    \/ approve_step_update(t)
    \/ approve_finish(t)
    \/ reject_load(t)
    \/ reject_step_update(t)
    \/ reject_finish(t)
    \/ withdraw_load(t)
    \/ withdraw_request_update(t)
    \/ withdraw_sweep(t)
    \/ Commit(t)
    \/ Rollback(t)
    \/ Fail(t)

SpecHandlers == Init /\ [][NextHandlers]_vars

\* the committed workflow steps of request r
CommittedStepsOf(r) == {s \in StepIds : steps[s].owner = "db" /\ steps[s].req = r}

\* C37: the committed steps of each request have the step_order values
\* 0 .. n-1, each once, with the approvers in the order submit handed them to
\* instantiate_steps.
C37_StepOrderDense ==
  \A r \in Reqs :
    LET S == CommittedStepsOf(r)
    IN /\ \A s \in S : steps[s].ord \in 0..(Cardinality(S) - 1)
       /\ \A s1, s2 \in S : steps[s1].ord = steps[s2].ord => s1 = s2
       /\ \A s \in S : /\ steps[s].ord < Len(ApproverIds(r))
                       /\ steps[s].approver = ApproverIds(r)[steps[s].ord + 1]


\* The steps a transaction has inserted and not yet committed.
InsertedBy(t) == {s \in StepIds : steps[s].owner = t}

\* C38: LeaveEngine.submit raises WorkflowStateException unless the request is
\* DRAFT and WorkflowNotFoundException when the organization has no active
\* workflow or the owner has no manager, and instantiate_steps raises
\* WorkflowStateException on an empty approver list; a call that raises has
\* created no step and left the request's status and submitted_at alone; a
\* submit that returns has created exactly one step, PENDING, step_order 0,
\* assigned to the owner's manager, and has set the request to
\* PENDING_APPROVAL with submitted_at.
C38_SubmitContract ==
  /\ [](\A t \in Txns, r \in Reqs :
          SubmitCheck(t, r) =
            IF ReqSeen(t, r).status # "DRAFT" THEN "WorkflowStateException"
            ELSE IF ~workflowActive \/ manager_id = None THEN "WorkflowNotFoundException"
            ELSE "ok")
  /\ [](\A t \in Txns :
          op[t].kind = "submit" =>
            /\ loc[t].rq = "DRAFT"
            /\ workflowActive
            /\ manager_id # None
            /\ pc[t] = "inst" => InsertedBy(t) = {}
            /\ pc[t] \in {"upd_req", "returned"} =>
                 /\ Cardinality(InsertedBy(t)) = 1
                 /\ \A s \in InsertedBy(t) :
                      /\ steps[s].req = op[t].req
                      /\ steps[s].ord = 0
                      /\ steps[s].approver = manager_id
                      /\ StepSeen(t, s) = "PENDING"
            /\ pc[t] = "returned" =>
                 /\ res[t].kind = "Submitted"
                 /\ ReqSeen(t, op[t].req).status = "PENDING_APPROVAL"
                 /\ ReqSeen(t, op[t].req).submitted_at)
  /\ [][\A t \in Txns :
          /\ (pc[t] = "idle" /\ op'[t].kind = "submit") =>
               SubmitCheck(t, op'[t].req) = "ok"
          /\ (pc[t] = "idle" /\ op'[t].kind = "instantiate") => op'[t].n > 0
          /\ (pc[t] = "idle" /\ pc'[t] = "failed") =>
               /\ steps' = steps
               /\ wstep' = wstep
               /\ reqs' = reqs
               /\ wreq' = wreq
               /\ res'[t].kind = "WorkflowNotFoundException" =>
                    \E r \in Reqs : SubmitCheck(t, r) = "WorkflowNotFoundException"]_vars

\* a submit has returned while another handler's call was refused
C38_Witness ==
  \E t \in Txns, u \in Txns :
    /\ pc[t] = "returned" /\ op[t].kind = "submit"
    /\ pc[u] = "failed" /\ res[u].kind = "WorkflowStateException"


\* C39: a committed workflow step whose status is APPROVED, REJECTED or
\* SKIPPED keeps that status in every later step of the system, whatever
\* the number of steps and the order in which the approvers act.
C39_DecidedStepsFinal ==
  [][\A s \in StepIds :
       (steps[s].owner = "db" /\ steps[s].status \in {"APPROVED", "REJECTED", "SKIPPED"}) =>
         steps'[s].status = steps[s].status]_vars


\* the exceptions raised by the precondition checks of submit, approve,
\* reject and withdraw
PreconditionFailures ==
  {"ApprovalException", "WorkflowStateException", "WorkflowNotFoundException"}

\* C40: when approve, reject, withdraw or submit raises on a precondition
\* (wrong actor, step not PENDING, request in the wrong status, no active
\* workflow, no manager), the raising step changes no step, request,
\* balance or audit row, committed or flushed, and the failed call's
\* transaction holds no write at all.
C40_RaiseBeforeAnyWrite ==
  /\ [](\A t \in Txns :
          (pc[t] = "failed" /\ res[t].kind \in PreconditionFailures) =>
            /\ \A s \in StepIds : wstep[t][s] = NoWrite
            /\ InsertedBy(t) = {}
            /\ \A r \in Reqs : wreq[t][r].set = {}
            /\ waudit[t] = ZeroAudit
            /\ wbal[t] = NoBalWrite)
  /\ [][\A t \in Txns :
          (pc[t] # "failed" /\ pc'[t] = "failed" /\ res'[t].kind \in PreconditionFailures) =>
            /\ pc[t] = "idle"
            /\ UNCHANGED <<reqs, steps, bal, audit, wstep, wreq, waudit, wbal>>]_vars

\* a call was refused on a precondition while the other handler holds
\* flushed writes and a step is committed
C40_Witness ==
  \E t \in Txns, u \in Txns :
    /\ pc[t] = "failed" /\ res[t].kind \in PreconditionFailures
    /\ \E s \in StepIds : wstep[u][s] # NoWrite
    /\ \E s \in StepIds : steps[s].owner = "db"

====
